---- MODULE Spec2Model ----
(***************************************************************************)
(* Claim adjudication pipeline of medverve/Claims-CQC.                     *)
(*                                                                         *)
(*   Spec          the background task process_claim_async (app.py) with   *)
(*                 GeminiService.analyze_claim_sequential inlined as its   *)
(*                 stage machine, the claim store and the progress stream  *)
(*   SpecClassify  GeminiService._classify_documents_sequential as a       *)
(*                 function of the oracle's answer                         *)
(*   SpecScore     QualityChecker.calculate_accuracy_score as a function   *)
(*                 of the list of check results                            *)
(*                                                                         *)
(* Numbers with two decimals (scores, weights) are kept as integers in     *)
(* hundredths; category scores, which the code keeps as unrounded floats,  *)
(* are kept as exact fractions [num, den].                                 *)
(***************************************************************************)
EXTENDS Integers, Sequences, FiniteSets, TLC

VARIABLES
    \* ---- SpecClassify
    cl_files,        \* file_paths handed to the classifier
    cl_resp,         \* the oracle's answer
    cl_out,          \* what _classify_documents_sequential produced
    cl_done          \* the classifier has run

classifyVars == <<cl_files, cl_resp, cl_out, cl_done>>

VARIABLES
    \* ---- SpecScore
    sc_results,      \* all_results handed to calculate_accuracy_score
    sc_out,          \* its return value
    sc_done          \* it has run

scoreVars == <<sc_results, sc_out, sc_done>>

VARIABLES
    \* ---- Spec: one run of process_claim_async
    pc,              \* position of the background thread
    stage,           \* stage of analyze_claim_sequential in progress (1..7), else 0
    claim,           \* the claim document of the store
    store,           \* result types saved for the claim (add_claim_result)
    uploads,         \* files present in the upload folder
    events,          \* events emitted to the session's room, in order
    calls,           \* what analyze_claim_sequential did, in order
    files,           \* all_file_paths of the claim
    tariffs_data,    \* the claim carries a tariff dataset
    classified_docs, \* classified_docs of analyze_claim_sequential
    line_items,      \* results['line_items']
    seq_result,      \* checklist, discrepancies, possible_issues of the analysis
    checks,          \* patient, date, report, checklist, tariff results so far
    oracle_failed,   \* stages whose _generate_with_retry raised
    outcome,         \* how each stage function ended
    fault,           \* what raised into the except block, if anything
    analyzed         \* analyzed_data is bound ('analyzed_data' in locals())

mainVars ==
    <<pc, stage, claim, store, uploads, events, calls, files, tariffs_data,
      classified_docs,      line_items, seq_result, checks, oracle_failed, outcome, fault, analyzed>>

VARIABLES
    \* ---- SpecChunked: one call of analyze_claim_chunked
    ch_pc,           \* step of the calling thread (index into MainSteps)
    ch_busy,         \* the calling thread is inside that step
    ch_status,       \* "running", "unwinding" (an exception leaves a with block),
                     \* "returned", "raised"
    ch_task          \* state of each stage task

chunkedVars == <<ch_pc, ch_busy, ch_status, ch_task>>

VARIABLES
    \* ---- SpecService: the background threads of the claims being processed
    sv_thread        \* per claim: where its thread stands

serviceVars == <<sv_thread>>

VARIABLES
    \* ---- specifications of one function call
    fn_in,           \* the arguments
    fn_out,          \* the return value
    fn_done          \* the function has run

fnVars == <<fn_in, fn_out, fn_done>>

VARIABLES
    \* ---- SpecRetry: one call of _generate_with_retry
    rt_attempt,      \* attempt of the for loop (0-based), as in the code
    rt_log,          \* oracle attempts and sleeps so far, in order
    rt_state         \* "calling", "sleeping", "returned", "raised"

retryVars == <<rt_attempt, rt_log, rt_state>>

VARIABLES
    \* ---- SpecRateLimit: concurrent calls of FirestoreService.record_request
    rl_logs,         \* ids of the documents in the request_logs collection
    rl_req           \* per request: its ip, where it is, what it read and returned

rateVars == <<rl_logs, rl_req>>

auxVars == <<chunkedVars, serviceVars, fnVars, retryVars, rateVars>>

vars == <<classifyVars, scoreVars, mainVars, auxVars>>

\* ------------------------------------------------------------------ bounds
MaxFiles == 2        \* uploaded files per claim
MaxDocs == 2         \* entries of the oracle's "documents" array
MaxCount == 1        \* items counted by one check result (matched, valid, ...)
MaxStageDocs == 1    \* entries of the "documents" array inside the pipeline run
MaxItems == 1        \* line items the invoice oracle returns
MaxIssues == 1       \* discrepancies, and possible issues, the final oracle returns
MaxClaims == 4       \* claims accepted while others are still being processed

\* ------------------------------------------------------- classifier (4.1)
Categories ==
    {"discharge_summary", "clinical", "invoice", "reports", "approval", "other"}

EmptyClassified == [c \in Categories |-> <<>>]

\* file_paths of a claim with n uploads: the i-th path is named by i
FilePaths(n) == [i \in 1..n |-> i]

SeqToSet(s) == {s[i] : i \in 1..Len(s)}

\* int(file_index) for a str file_index: the digits' value, ValueError otherwise
IntOfStr(s) ==
    CASE s = "0" -> [ok |-> TRUE, v |-> 0]
      [] s = "1" -> [ok |-> TRUE, v |-> 1]
      [] s = "2" -> [ok |-> TRUE, v |-> 2]
      [] s = "3" -> [ok |-> TRUE, v |-> 3]
      [] s = "-1" -> [ok |-> TRUE, v |-> -1]
      [] OTHER -> [ok |-> FALSE, v |-> 0]

\* The JSON values the oracle may put in "file_index":
\*   null / absent, an integer, a string, a float
FileIndexValues(n) ==
    {[t |-> "none", v |-> 0, s |-> ""], [t |-> "float", v |-> 0, s |-> ""]}
    \cup {[t |-> "int", v |-> i, s |-> ""] : i \in -1..n}
    \cup {[t |-> "str", v |-> 0, s |-> s] : s \in {"0", "1", "x"}}

\* "document_type": a category, an unknown name, or an unhashable JSON value
DocTypeValues == {"invoice", "clinical", "approval", "bogus", "unhashable"}

NonDictDoc ==
    [is_dict |-> FALSE, document_type |-> "bogus",
     file_index |-> [t |-> "none", v |-> 0, s |-> ""]]

OracleDocs(n) ==
    {NonDictDoc} \cup
    [is_dict : {TRUE}, document_type : DocTypeValues, file_index : FileIndexValues(n)]

SeqsUpTo(S, k) == UNION {[1..m -> S] : m \in 0..k}

\* What one classifier oracle call can come back with.
\*   call      "raise": _generate_with_retry raised; "ok": a response came back
\*   parse     "error": json.loads (after fence stripping) failed
\*   shape     the parsed value: a list, a dict, anything else
\*   iterable  FALSE: the dict's "documents" is null or a number
ClassifyResponses(n, k) ==
    {[call |-> "raise", parse |-> "error", shape |-> "scalar", iterable |-> TRUE,
      documents |-> <<>>],
     [call |-> "ok", parse |-> "error", shape |-> "scalar", iterable |-> TRUE,
      documents |-> <<>>],
     [call |-> "ok", parse |-> "json", shape |-> "scalar", iterable |-> TRUE,
      documents |-> <<>>],
     [call |-> "ok", parse |-> "json", shape |-> "dict", iterable |-> FALSE,
      documents |-> <<>>]}
    \cup [call : {"ok"}, parse : {"json"}, shape : {"list", "dict"},
          iterable : {TRUE}, documents : SeqsUpTo(OracleDocs(n), k)]

\* The except branch: every file in 'invoice'
ClassifyFallback(file_paths) == [EmptyClassified EXCEPT !["invoice"] = file_paths]

\* One iteration of "for doc in documents" on the accumulator
\*   [error, classified, classified_indices]
ClassifyDoc(doc, file_paths, exists, acc) ==
    LET fi == doc.file_index
        conv == IntOfStr(fi.s)
        idx == IF fi.t = "str" THEN conv.v ELSE fi.v
        skip == \/ fi.t = "str" /\ ~conv.ok
                \/ fi.t \in {"none", "float"}
                \/ ~(0 <= idx /\ idx < Len(file_paths))
        file_path == file_paths[idx + 1]
        bucket == IF doc.document_type \in Categories THEN doc.document_type ELSE "other"
    IN  IF ~doc.is_dict THEN [acc EXCEPT !.error = TRUE]
        ELSE IF skip THEN acc
        ELSE IF file_path \notin exists
             THEN [acc EXCEPT !.classified_indices = @ \cup {idx}]
        ELSE IF doc.document_type = "unhashable"
             THEN [acc EXCEPT !.error = TRUE, !.classified_indices = @ \cup {idx}]
        ELSE [acc EXCEPT !.classified_indices = @ \cup {idx},
                         !.classified[bucket] = Append(@, file_path)]

RECURSIVE ClassifyLoop(_, _, _, _, _)
ClassifyLoop(documents, i, file_paths, exists, acc) ==
    IF i > Len(documents) \/ acc.error THEN acc
    ELSE ClassifyLoop(documents, i + 1, file_paths, exists,
                      ClassifyDoc(documents[i], file_paths, exists, acc))

\* "If some files weren't classified, add them to 'other'"
RECURSIVE AddUnclassified(_, _, _, _)
AddUnclassified(i, file_paths, exists, acc) ==
    IF i > Len(file_paths) THEN acc
    ELSE AddUnclassified(i + 1, file_paths, exists,
            IF (i - 1) \notin acc.classified_indices /\ file_paths[i] \in exists
            THEN [acc EXCEPT !.classified["other"] = Append(@, file_paths[i])]
            ELSE acc)

\* _classify_documents_sequential: [raised, classified]
ClassifyDocumentsSequential(file_paths, exists, resp) ==
    IF resp.call = "raise"
    THEN [raised |-> TRUE, classified |-> EmptyClassified]
    ELSE IF resp.parse = "error" \/ (resp.shape = "dict" /\ ~resp.iterable)
    THEN [raised |-> FALSE, classified |-> ClassifyFallback(file_paths)]
    ELSE LET documents == IF resp.shape \in {"list", "dict"} THEN resp.documents ELSE <<>>
             start == [error |-> FALSE, classified |-> EmptyClassified,
                       classified_indices |-> {}]
             looped == ClassifyLoop(documents, 1, file_paths, exists, start)
         IN  IF looped.error
             THEN [raised |-> FALSE, classified |-> ClassifyFallback(file_paths)]
             ELSE [raised |-> FALSE,
                   classified |-> AddUnclassified(1, file_paths, exists, looped).classified]

\* Number of references to file f over all buckets
RECURSIVE CountIn(_, _)
CountIn(s, f) ==
    IF s = <<>> THEN 0 ELSE (IF Head(s) = f THEN 1 ELSE 0) + CountIn(Tail(s), f)

\* The buckets in the order the code builds them
CategoryOrder ==
    <<"discharge_summary", "clinical", "invoice", "reports", "approval", "other">>

\* sum(classified.values(), []): every reference, bucket after bucket
RECURSIVE AllReferences(_, _)
AllReferences(classified, i) ==
    IF i > Len(CategoryOrder) THEN <<>>
    ELSE classified[CategoryOrder[i]] \o AllReferences(classified, i + 1)

References(classified, f) == CountIn(AllReferences(classified, 1), f)

TotalReferences(classified) == Len(AllReferences(classified, 1))

\* ------------------------------------------------------- scoring (4.7)
\* weights of calculate_accuracy_score, in hundredths
Weights ==
    [patient_details |-> 25, dates |-> 20, reports |-> 15, line_items |-> 30,
     tariffs |-> 10]

\* weights.get(result_type, 0.1)
DefaultWeight == 10

WeightOf(result_type) ==
    IF result_type \in DOMAIN Weights THEN Weights[result_type] ELSE DefaultWeight

\* 'threshold': 80, in hundredths of a point
Threshold == 8000

\* Exact fractions for the float scores
Frac(n, d) == [num |-> n, den |-> d]
FracAdd(a, b) == Frac(a.num * b.den + b.num * a.den, a.den * b.den)
FracEq(a, b) == a.num * b.den = b.num * a.den
FracLeq(a, b) == a.num * b.den <= b.num * a.den

\* CategoryScore with the empty category penalised
CategoryScoreEmptyIsZero(passed, total) ==
    IF total > 0 THEN Frac(passed * 100, total) ELSE Frac(0, 1)

\* (passed / total * 100) if total > 0 else 100
CategoryScore(passed, total) ==
    IF total > 0 THEN Frac(passed * 100, total) ELSE Frac(100, 1)

\* round(x, 2) of a value given in hundredths: nearest integer, ties to even
RoundHalfEven(f) ==
    LET q == f.num \div f.den
        r == f.num % f.den
    IN  IF 2 * r < f.den THEN q
        ELSE IF 2 * r > f.den THEN q + 1
        ELSE IF q % 2 = 0 THEN q ELSE q + 1

\* QualityChecker._to_bool on the JSON values "True", "False", "None", "yes", "no"
ToBool(value) == value \in {"True", "yes"}

\* the test of line 262 on one case-checklist item
ChecklistItemValid(item) ==
    LET proof_required == ToBool(item.proof_required)
        proof_available == ToBool(item.proof_available)
        proof_accuracy_bool ==
            IF item.proof_accuracy # "None" THEN ToBool(item.proof_accuracy) ELSE TRUE
        code_valid == IF item.code_valid # "None" THEN ToBool(item.code_valid) ELSE TRUE
    IN  (~proof_required \/ (proof_available /\ proof_accuracy_bool)) /\ code_valid

\* valid_items of lines 253-263
RECURSIVE CountValidItems(_)
CountValidItems(checklist) ==
    IF checklist = <<>> THEN 0
    ELSE (IF ChecklistItemValid(Head(checklist)) THEN 1 ELSE 0)
         + CountValidItems(Tail(checklist))

\* item.get('presence') and item.get('accurate')
PayerItemValid(item) == item.presence /\ item.accurate

\* valid_docs of line 270
RECURSIVE CountValidDocs(_)
CountValidDocs(checklist) ==
    IF checklist = <<>> THEN 0
    ELSE (IF PayerItemValid(Head(checklist)) THEN 1 ELSE 0)
         + CountValidDocs(Tail(checklist))

\* total count of checkable items of one result, as the code reads it
ResultTotal(result) ==
    CASE result.type = "patient_details" -> result.discrepancies + result.matched_fields
      [] result.type = "dates" -> result.total_items
      [] result.type = "reports" -> result.total_reports
      [] result.type \in {"line_items", "comprehensive_checklist"} ->
            IF result.case_specific_checklist # <<>>
            THEN Len(result.case_specific_checklist)
            ELSE Len(result.payer_specific_checklist)
      [] result.type = "tariffs" -> result.total_checked
      [] OTHER -> 0

\* count of passing items of one result
ResultPassed(result) ==
    CASE result.type = "patient_details" -> result.matched_fields
      [] result.type = "dates" -> result.valid_count
      [] result.type = "reports" -> result.matching_count
      [] result.type \in {"line_items", "comprehensive_checklist"} ->
            IF result.case_specific_checklist # <<>>
            THEN CountValidItems(result.case_specific_checklist)
            ELSE CountValidDocs(result.payer_specific_checklist)
      [] result.type = "tariffs" -> result.matched
      [] OTHER -> 0

ScoredTypes ==
    {"patient_details", "dates", "reports", "line_items", "comprehensive_checklist",
     "tariffs"}

\* the score one branch of the loop computes for its result
ResultScore(result) == CategoryScore(ResultPassed(result), ResultTotal(result))

\* for result in all_results: on [weighted_score, breakdown]
\* weighted_score is kept in hundredths of a point (score * weight * 100)
RECURSIVE ScoreLoop(_, _, _)
ScoreLoop(all_results, i, acc) ==
    IF i > Len(all_results) THEN acc
    ELSE LET result == all_results[i]
             weight == WeightOf(result.type)
             score == ResultScore(result)
         IN  ScoreLoop(all_results, i + 1,
                IF result.type \in ScoredTypes
                THEN [weighted_score |->
                          FracAdd(acc.weighted_score, Frac(score.num * weight, score.den)),
                      breakdown |-> (result.type :> score) @@ acc.breakdown]
                ELSE acc)

EmptyBreakdown == [t \in {} |-> Frac(0, 1)]

\* QualityChecker.calculate_accuracy_score; accuracy_score in hundredths
CalculateAccuracyScore(all_results) ==
    LET done == ScoreLoop(all_results, 1,
                          [weighted_score |-> Frac(0, 1), breakdown |-> EmptyBreakdown])
        accuracy_score == RoundHalfEven(done.weighted_score)
    IN  [accuracy_score |-> accuracy_score,
         passed |-> accuracy_score >= Threshold,
         threshold |-> Threshold,
         breakdown |-> done.breakdown]

\* ---- inputs of SpecScore
PatientResults ==
    [type : {"patient_details"}, discrepancies : 0..MaxCount, matched_fields : 0..MaxCount]

DateResults == [type : {"dates"}, total_items : 0..MaxCount, valid_count : 0..MaxCount]

ReportResults ==
    [type : {"reports"}, total_reports : 0..MaxCount, matching_count : 0..MaxCount]

\* check_tariffs counts 'matched' among its own 'tariff_checks'
TariffResults ==
    {r \in [type : {"tariffs"}, total_checked : 0..MaxCount, matched : 0..MaxCount] :
        r.matched <= r.total_checked}

\* case-checklist items: nothing to prove, proof enclosed, proof missing, bad code
ItemPlain ==
    [proof_required |-> "None", proof_available |-> "None", proof_accuracy |-> "None",
     code_valid |-> "None"]
ItemProved == [ItemPlain EXCEPT !.proof_required = "True", !.proof_available = "yes"]
ItemUnproved == [ItemPlain EXCEPT !.proof_required = "True", !.proof_available = "False"]
ItemBadCode == [ItemPlain EXCEPT !.code_valid = "False"]

CaseChecklists ==
    {<<>>, <<ItemPlain>>, <<ItemProved>>, <<ItemUnproved>>, <<ItemPlain, ItemUnproved>>,
     <<ItemBadCode, ItemProved>>}

PayerChecklists ==
    {<<>>, <<[presence |-> TRUE, accurate |-> TRUE]>>,
     <<[presence |-> TRUE, accurate |-> FALSE]>>}

\* check_line_items returns type 'comprehensive_checklist'; the weights table and
\* the branch of line 244 also name 'line_items'
ChecklistResults ==
    {r \in [type : {"line_items", "comprehensive_checklist"},
            case_specific_checklist : CaseChecklists,
            payer_specific_checklist : PayerChecklists] :
        r.case_specific_checklist = <<>> \/ r.payer_specific_checklist = <<>>}

\* app.py 769-771: the four results, and the tariff result when there is one
AllResultsInputs ==
    {<<p, d, r, l>> : p \in PatientResults, d \in DateResults, r \in ReportResults,
                      l \in ChecklistResults}
    \cup {<<p, d, r, l, t>> : p \in PatientResults, d \in DateResults,
                              r \in ReportResults, l \in ChecklistResults,
                              t \in TariffResults}

NoScore ==
    [accuracy_score |-> 0, passed |-> FALSE, threshold |-> Threshold,
     breakdown |-> EmptyBreakdown]

\* ------------------------------------ process_claim_async (4.2 - 4.7, 5)
\* The order in which analyze_claim_sequential names and runs its stages
StageNamesApprovalBeforeReports ==
    <<"classify", "clinical", "invoice", "approval", "reports", "requirements", "final">>

StageNames ==
    <<"classify", "clinical", "invoice", "reports", "approval", "requirements", "final">>

NumStages == Len(StageNames)

\* emit_progress: step_weights.get(step_name, 10)
StepWeights ==
    [classify |-> 10, clinical |-> 20, invoice |-> 30, reports |-> 40, approval |-> 50,
     requirements |-> 60, final |-> 70]

StepWeight(step_name) ==
    IF step_name \in DOMAIN StepWeights THEN StepWeights[step_name] ELSE 10

\* One event of the session's room. 'result' says the payload has a 'result' key.
ProgressEvent(step, progress, result) ==
    [name |-> "progress", step |-> step, progress |-> progress, result |-> result]

ResultEvent(status) ==
    [name |-> "result", step |-> status, progress |-> 0, result |-> TRUE]

ErrorEvent == [name |-> "error", step |-> "error", progress |-> 0, result |-> TRUE]

\* The progress events of the try body that carry no result: where the thread
\* stands, what it emits, where it goes next
PlainEmits ==
    [emit_initializing |->
         [step |-> "initializing", progress |-> 0, next |-> "emit_analyzing"],
     emit_analyzing |-> [step |-> "analyzing", progress |-> 10, next |-> "collect"],
     emit_analysis_complete |->
         [step |-> "analyzing", progress |-> 75, next |-> "organize"],
     emit_patient_check |->
         [step |-> "patient_check", progress |-> 40, next |-> "cashless"],
     emit_date_check |-> [step |-> "date_check", progress |-> 50, next |-> "dates"],
     emit_report_check |->
         [step |-> "report_check", progress |-> 60, next |-> "reports_check"],
     emit_tariff_check |-> [step |-> "tariff_check", progress |-> 85, next |-> "tariffs"],
     emit_calculating |-> [step |-> "calculating", progress |-> 90, next |-> "score"]]

\* add_claim_result of the three final documents, in order
FinalSaves ==
    [save_final_score |-> [result_type |-> "final_score", next |-> "save_final_report"],
     save_final_report |->
         [result_type |-> "final_report", next |-> "save_analyzed_data"],
     save_analyzed_data |-> [result_type |-> "analyzed_data", next |-> "delete_files"]]

\* Positions of the try body whose statement calls the store, the transport, the
\* file system or a checker and so may raise
RaisePoints ==
    (DOMAIN PlainEmits) \cup (DOMAIN FinalSaves)
    \cup {"get_claim", "collect", "seq_prepare", "seq_callback", "cashless", "patient",
          "dates", "reports_check", "checklist", "tariffs", "update_claim",
          "emit_completed", "emit_result"}

\* Line items as the invoice oracle returns them: what the report stage reads
LineItemValues ==
    {[type |-> "investigative", item_name |-> "cbc"],
     [type |-> "investigative", item_name |-> ""],
     [type |-> "procedure", item_name |-> "appendectomy"]}

LineItemLists == SeqsUpTo(LineItemValues, MaxItems)

\* investigative_items of _assess_reports_sequential
InvestigativeItems(items) ==
    SelectSeq(items, LAMBDA item : item.type = "investigative" /\ item.item_name # "")

\* Checklists the requirements oracle returns
StageChecklists == {<<>>, <<ItemProved>>, <<ItemUnproved>>}

\* results of analyze_claim_sequential as far as the orchestrator reads them
EmptyResults ==
    [case_specific_checklist |-> <<>>, discrepancies |-> 0, possible_issues |-> 0]

NoClaimScore == [scored |-> FALSE, accuracy_score |-> 0, passed |-> FALSE]

\* app.py 756-766: the score of the sequential path, in hundredths
SequentialScore(results) ==
    LET total_issues == results.discrepancies + results.possible_issues
        accuracy_score == IF 100 - total_issues * 5 > 0 THEN 100 - total_issues * 5 ELSE 0
    IN  [accuracy_score |-> accuracy_score * 100, passed |-> accuracy_score >= 80]

StagesPending == [name \in SeqToSet(StageNames) |-> "pending"]

\* ---- the variables of a specification that is not the one running
ClassifyIdle ==
    /\ cl_files = <<>> /\ cl_done = FALSE
    /\ cl_resp = [call |-> "ok", parse |-> "error", shape |-> "scalar",
                  iterable |-> TRUE, documents |-> <<>>]
    /\ cl_out = [raised |-> FALSE, classified |-> EmptyClassified]

ScoreIdle == sc_results = <<>> /\ sc_out = NoScore /\ sc_done = FALSE

ChunkedIdle == ch_pc = 0 /\ ch_busy = FALSE /\ ch_status = "idle" /\ ch_task = <<>>

ServiceIdle == sv_thread = <<>>

FnIdle == fn_in = <<>> /\ fn_out = <<>> /\ fn_done = FALSE

RetryIdle == rt_attempt = 0 /\ rt_log = <<>> /\ rt_state = "idle"

RateIdle == rl_logs = {} /\ rl_req = <<>>

AuxIdle == ChunkedIdle /\ ServiceIdle /\ FnIdle /\ RetryIdle /\ RateIdle

MainIdle ==
    /\ pc = "idle" /\ stage = 0
    /\ claim = [status |-> "absent"] @@ NoClaimScore
    /\ store = {} /\ uploads = {} /\ events = <<>> /\ calls = <<>> /\ files = <<>>
    /\ tariffs_data = FALSE /\ classified_docs = EmptyClassified /\ line_items = <<>>
    /\ seq_result = EmptyResults /\ checks = <<>> /\ oracle_failed = {}
    /\ outcome = StagesPending /\ fault = "none" /\ analyzed = FALSE

\* ------------------------------------------------------------- SpecScore
InitScore ==
    /\ sc_results \in AllResultsInputs
    /\ sc_out = NoScore
    /\ sc_done = FALSE
    /\ ClassifyIdle
    /\ MainIdle
    /\ AuxIdle

Calculate ==
    /\ ~sc_done
    /\ sc_out' = CalculateAccuracyScore(sc_results)
    /\ sc_done' = TRUE
    /\ UNCHANGED <<sc_results, classifyVars, mainVars, auxVars>>

\* ---------------------------------------------------------- SpecClassify
InitClassify ==
    /\ cl_files \in {FilePaths(n) : n \in 0..MaxFiles}
    /\ cl_resp \in ClassifyResponses(Len(cl_files), MaxDocs)
    /\ cl_out = [raised |-> FALSE, classified |-> EmptyClassified]
    /\ cl_done = FALSE
    /\ ScoreIdle
    /\ MainIdle
    /\ AuxIdle

Classify ==
    /\ ~cl_done
    /\ cl_out' = ClassifyDocumentsSequential(cl_files, SeqToSet(cl_files), cl_resp)
    /\ cl_done' = TRUE
    /\ UNCHANGED <<cl_files, cl_resp, scoreVars, mainVars, auxVars>>

NextClassify == Classify

SpecClassify == InitClassify /\ [][NextClassify]_vars

\* C1: for every answer that parses as JSON, the buckets hold exactly N
\* references, each input file exactly once.
C1_EveryFileInExactlyOneBucket ==
    (cl_done /\ cl_resp.call = "ok" /\ cl_resp.parse = "json") =>
        /\ ~cl_out.raised
        /\ TotalReferences(cl_out.classified) = Len(cl_files)
        /\ \A f \in SeqToSet(cl_files) : References(cl_out.classified, f) = 1

NextScore == Calculate

SpecScore == InitScore /\ [][NextScore]_vars

\* Scores of the categories in sc_results, by position (patient, dates, reports,
\* line items, tariffs)
ScoreAt(i) == ResultScore(sc_results[i])
IsHundred(f) == FracEq(f, Frac(100, 1))
IsZero(f) == f.num = 0

\* C7: five results, all category scores 100: accuracy 100.00 and passed;
\* patient-details score 0 and the other four 100: accuracy 75.00, not passed.
C7_FiveCategoriesScore ==
    (sc_done /\ Len(sc_results) = 5) =>
        /\ (\A i \in 1..5 : IsHundred(ScoreAt(i))) =>
               (sc_out.accuracy_score = 10000 /\ sc_out.passed)
        /\ (IsZero(ScoreAt(1)) /\ \A i \in 2..5 : IsHundred(ScoreAt(i))) =>
               (sc_out.accuracy_score = 7500 /\ ~sc_out.passed)

\* weighted_score before rounding, in hundredths, and the weights it used
WeightedOf(all_results) ==
    ScoreLoop(all_results, 1,
              [weighted_score |-> Frac(0, 1), breakdown |-> EmptyBreakdown]).weighted_score

RECURSIVE SumWeights(_)
SumWeights(all_results) ==
    IF all_results = <<>> THEN 0
    ELSE WeightOf(Head(all_results).type) + SumWeights(Tail(all_results))

\* C8: without a tariff result the score is the weighted sum divided by the sum of
\* the weights present, so four category scores of 100 give 100.00.
C8_WeightsRenormalised ==
    (sc_done /\ Len(sc_results) = 4) =>
        LET ws == WeightedOf(sc_results)
        IN  /\ sc_out.accuracy_score =
                   RoundHalfEven(Frac(ws.num * 100, ws.den * SumWeights(sc_results)))
            /\ (\A i \in 1..4 : IsHundred(ScoreAt(i))) => sc_out.accuracy_score = 10000

\* C9: a category with no checkable item scores exactly 100, and every score in
\* the breakdown is a defined number (no division by zero).
C9_EmptyCategoryScoresHundred ==
    sc_done =>
        /\ \A i \in 1..Len(sc_results) :
              ResultTotal(sc_results[i]) = 0 =>
                  /\ sc_results[i].type \in DOMAIN sc_out.breakdown
                  /\ sc_out.breakdown[sc_results[i].type] = Frac(100, 1)
        /\ \A t \in DOMAIN sc_out.breakdown : sc_out.breakdown[t].den > 0

\* an empty dates category next to a patient result with a discrepancy
C9_Witness ==
    /\ sc_done
    /\ Len(sc_results) = 5
    /\ ResultTotal(sc_results[2]) = 0
    /\ ResultTotal(sc_results[5]) = 0
    /\ ResultTotal(sc_results[1]) > 0
    /\ sc_out.accuracy_score < 10000

\* ------------------------------------------------------------------ Spec
\* One run of the background task of process_claim. The claim store is an outside
\* service: the task may find the document it was started for ("processing") or
\* not find it ("absent", the branch of app.py 376).
Init ==
    /\ ClassifyIdle
    /\ ScoreIdle
    /\ AuxIdle
    /\ pc = "get_claim" /\ stage = 0
    /\ claim \in {[status |-> s] @@ NoClaimScore : s \in {"processing", "absent"}}
    /\ files \in {FilePaths(n) : n \in 0..MaxFiles}
    /\ uploads = SeqToSet(files)
    /\ tariffs_data \in BOOLEAN
    /\ store = {} /\ events = <<>> /\ calls = <<>>
    /\ classified_docs = EmptyClassified /\ line_items = <<>>
    /\ seq_result = EmptyResults /\ checks = <<>> /\ oracle_failed = {}
    /\ outcome = StagesPending /\ fault = "none" /\ analyzed = FALSE

inputVars == <<files, tariffs_data, classifyVars, scoreVars, auxVars>>
stageVars == <<classified_docs, line_items, seq_result, oracle_failed, outcome>>
storeVars == <<claim, store, uploads>>

\* claim = firestore_service.get_claim(claim_id); if not claim: return
GetClaim ==
    /\ pc = "get_claim"
    /\ pc' = IF claim.status = "absent" THEN "done" ELSE "emit_initializing"
    /\ UNCHANGED <<stage, events, calls, checks, fault, analyzed, inputVars, stageVars,
                   storeVars>>

\* socketio.emit('progress', {step, message, progress}) of the try body
EmitProgress ==
    /\ pc \in DOMAIN PlainEmits
    /\ events' = Append(events,
                        ProgressEvent(PlainEmits[pc].step, PlainEmits[pc].progress, FALSE))
    /\ pc' = PlainEmits[pc].next
    /\ UNCHANGED <<stage, calls, checks, fault, analyzed, inputVars, stageVars, storeVars>>

\* checker = get_quality_checker(); all_file_paths; if all_file_paths: ... else: {}
CollectFiles ==
    /\ pc = "collect"
    /\ pc' = IF files # <<>> THEN "seq_prepare" ELSE "organize"
    /\ UNCHANGED <<stage, events, calls, checks, fault, analyzed, inputVars, stageVars,
                   storeVars>>

\* ---- analyze_claim_sequential
Call(what) == [what |-> what, stage |-> StageNames[stage]]

\* file_parts = self._prepare_file_parts(file_paths); results = {...}
PrepareFileParts ==
    /\ pc = "seq_prepare"
    /\ stage' = 1
    /\ pc' = "seq_callback"
    /\ UNCHANGED <<events, calls, checks, fault, analyzed, inputVars, stageVars, storeVars>>

\* if progress_callback: progress_callback(name, message), which is emit_progress
StageCallback ==
    /\ pc = "seq_callback"
    /\ events' = Append(events,
                        ProgressEvent(StageNames[stage], StepWeight(StageNames[stage]),
                                      FALSE))
    /\ calls' = Append(calls, Call("callback"))
    /\ pc' = "seq_invoke"
    /\ UNCHANGED <<stage, checks, fault, analyzed, inputVars, stageVars, storeVars>>

\* The stage function is entered. _assess_reports_sequential returns its default
\* without an oracle call when no line item is investigative and named.
StageInvoke ==
    /\ pc = "seq_invoke"
    /\ calls' = Append(calls, Call("invoke"))
    /\ IF StageNames[stage] = "reports" /\ InvestigativeItems(line_items) = <<>>
       THEN /\ outcome' = [outcome EXCEPT ![StageNames[stage]] = "returned"]
            /\ pc' = "seq_return"
       ELSE /\ UNCHANGED outcome
            /\ pc' = "seq_oracle"
    /\ UNCHANGED <<stage, events, checks, fault, analyzed, inputVars, classified_docs,
                   line_items, seq_result, oracle_failed, storeVars>>

AtOracle(name) ==
    /\ pc = "seq_oracle"
    /\ StageNames[stage] = name
    /\ calls' = Append(calls, Call("oracle"))

\* _generate_with_retry raised outside the stage's try: the exception leaves the
\* stage, analyze_claim_sequential and reaches the except block of the task
StageRaises(name) ==
    /\ oracle_failed' = oracle_failed \cup {name}
    /\ outcome' = [outcome EXCEPT ![name] = "raised"]
    /\ fault' = "oracle"
    /\ pc' = "except"

\* The stage function returned a value
StageReturns(name) ==
    /\ outcome' = [outcome EXCEPT ![name] = "returned"]
    /\ pc' = "seq_return"
    /\ UNCHANGED fault

\* The stage function returned a JSON value that is no object and the caller's
\* .get on it raised AttributeError
ShapeRaises(name) ==
    /\ outcome' = [outcome EXCEPT ![name] = "returned"]
    /\ fault' = "shape"
    /\ pc' = "except"

OracleClassify ==
    /\ AtOracle("classify")
    /\ \E resp \in ClassifyResponses(Len(files), MaxStageDocs) :
          LET r == ClassifyDocumentsSequential(files, uploads, resp)
          IN  IF r.raised
              THEN StageRaises("classify") /\ UNCHANGED classified_docs
              ELSE /\ StageReturns("classify")
                   /\ classified_docs' = r.classified
                   /\ UNCHANGED oracle_failed
    /\ UNCHANGED <<stage, events, checks, analyzed, inputVars, line_items, seq_result,
                   storeVars>>

OracleCaseContext ==
    /\ AtOracle("clinical")
    /\ \E answer \in {"raise", "unparseable", "object", "nondict"} :
          CASE answer = "raise" -> StageRaises("clinical")
            [] answer = "nondict" -> ShapeRaises("clinical") /\ UNCHANGED oracle_failed
            [] OTHER -> StageReturns("clinical") /\ UNCHANGED oracle_failed
    /\ UNCHANGED <<stage, events, checks, analyzed, inputVars, classified_docs, line_items,
                   seq_result, storeVars>>

OracleInvoice ==
    /\ AtOracle("invoice")
    /\ \E answer \in {"raise", "unparseable", "object", "nondict"} :
          CASE answer = "raise" -> StageRaises("invoice") /\ UNCHANGED line_items
            [] answer = "nondict" ->
                   ShapeRaises("invoice") /\ UNCHANGED <<oracle_failed, line_items>>
            [] answer = "unparseable" ->
                   StageReturns("invoice") /\ UNCHANGED <<oracle_failed, line_items>>
            [] OTHER ->
                   /\ StageReturns("invoice")
                   /\ line_items' \in LineItemLists
                   /\ UNCHANGED oracle_failed
    /\ UNCHANGED <<stage, events, checks, analyzed, inputVars, classified_docs, seq_result,
                   storeVars>>

OracleReports ==
    /\ AtOracle("reports")
    /\ \E answer \in {"raise", "unparseable", "object", "nondict"} :
          CASE answer = "raise" -> StageRaises("reports")
            [] answer = "nondict" -> ShapeRaises("reports") /\ UNCHANGED oracle_failed
            [] OTHER -> StageReturns("reports") /\ UNCHANGED oracle_failed
    /\ UNCHANGED <<stage, events, checks, analyzed, inputVars, classified_docs, line_items,
                   seq_result, storeVars>>

\* a list answer is unwrapped by the stage, any other non-object by line 1397
OracleApproval ==
    /\ AtOracle("approval")
    /\ \E answer \in {"raise", "unparseable", "object", "nondict"} :
          CASE answer = "raise" -> StageRaises("approval")
            [] OTHER -> StageReturns("approval") /\ UNCHANGED oracle_failed
    /\ UNCHANGED <<stage, events, checks, analyzed, inputVars, classified_docs, line_items,
                   seq_result, storeVars>>

\* the oracle call is inside the try: a failed call returns {"checklist": []}
OracleRequirements ==
    /\ AtOracle("requirements")
    /\ \E answer \in {"raise", "unparseable", "object", "nondict"} :
          CASE answer = "raise" ->
                   /\ StageReturns("requirements")
                   /\ oracle_failed' = oracle_failed \cup {"requirements"}
                   /\ UNCHANGED seq_result
            [] answer = "nondict" ->
                   ShapeRaises("requirements") /\ UNCHANGED <<oracle_failed, seq_result>>
            [] answer = "unparseable" ->
                   StageReturns("requirements") /\ UNCHANGED <<oracle_failed, seq_result>>
            [] OTHER ->
                   /\ StageReturns("requirements")
                   /\ \E checklist \in StageChecklists :
                         seq_result' =
                             [seq_result EXCEPT !.case_specific_checklist = checklist]
                   /\ UNCHANGED oracle_failed
    /\ UNCHANGED <<stage, events, checks, analyzed, inputVars, classified_docs, line_items,
                   storeVars>>

\* the oracle call is inside the try: a failed call returns empty lists
OracleFinal ==
    /\ AtOracle("final")
    /\ \E answer \in {"raise", "unparseable", "object", "nondict"} :
          CASE answer = "raise" ->
                   /\ StageReturns("final")
                   /\ oracle_failed' = oracle_failed \cup {"final"}
                   /\ UNCHANGED seq_result
            [] answer = "nondict" ->
                   ShapeRaises("final") /\ UNCHANGED <<oracle_failed, seq_result>>
            [] answer = "unparseable" ->
                   StageReturns("final") /\ UNCHANGED <<oracle_failed, seq_result>>
            [] OTHER ->
                   /\ StageReturns("final")
                   /\ \E d \in 0..MaxIssues, p \in 0..MaxIssues :
                         seq_result' =
                             [seq_result EXCEPT !.discrepancies = d, !.possible_issues = p]
                   /\ UNCHANGED oracle_failed
    /\ UNCHANGED <<stage, events, checks, analyzed, inputVars, classified_docs, line_items,
                   storeVars>>

\* The stage's result is stored in results and the next stage begins; after the
\* last one analyze_claim_sequential returns results and its locals are gone.
StageReturn ==
    /\ pc = "seq_return"
    /\ IF stage = NumStages
       THEN /\ calls' = calls \o <<Call("return"), [what |-> "return", stage |-> "analysis"]>>
            /\ stage' = 0
            /\ pc' = "emit_analysis_complete"
            /\ classified_docs' = EmptyClassified
            /\ oracle_failed' = {}
            /\ outcome' = StagesPending
       ELSE /\ calls' = Append(calls, Call("return"))
            /\ stage' = stage + 1
            /\ pc' = "seq_callback"
            /\ UNCHANGED <<classified_docs, oracle_failed, outcome>>
    /\ UNCHANGED <<events, checks, fault, analyzed, inputVars, line_items, seq_result,
                   storeVars>>

\* ---- the checks of process_claim_async
\* merged_data, analyzed_data, sequential_results
Organize ==
    /\ pc = "organize"
    /\ analyzed' = TRUE
    /\ pc' = "emit_patient_check"
    /\ UNCHANGED <<stage, events, calls, checks, fault, inputVars, stageVars, storeVars>>

\* cashless_status = checker.evaluate_cashless_status(analyzed_data), stored
Cashless ==
    /\ pc = "cashless"
    /\ store' = store \cup {"cashless_verification"}
    /\ pc' = "patient"
    /\ UNCHANGED <<stage, events, calls, checks, fault, analyzed, inputVars, stageVars,
                   claim, uploads>>

\* What the patient comparison can find: all fields matched, or a discrepancy
PatientOutcomes ==
    {[type |-> "patient_details", discrepancies |-> 0, matched_fields |-> 1],
     [type |-> "patient_details", discrepancies |-> 1, matched_fields |-> 0]}

PatientCheck ==
    /\ pc = "patient"
    /\ \E patient_result \in PatientOutcomes : checks' = Append(checks, patient_result)
    /\ store' = store \cup {"patient_details"}
    /\ pc' = "emit_date_check"
    /\ UNCHANGED <<stage, events, calls, fault, analyzed, inputVars, stageVars, claim,
                   uploads>>

\* date_result: total_items is len(line_items), valid_count what the oracle lists
DateCheck ==
    /\ pc = "dates"
    /\ \E valid_count \in {0, Len(line_items)} :
          checks' = Append(checks, [type |-> "dates", total_items |-> Len(line_items),
                                    valid_count |-> valid_count])
    /\ store' = store \cup {"dates"}
    /\ pc' = "emit_report_check"
    /\ UNCHANGED <<stage, events, calls, fault, analyzed, inputVars, stageVars, claim,
                   uploads>>

\* reports = analyzed_data['hospital'].get('reports', []): merged_data has no such
\* key, so the list is empty
ReportCheck ==
    /\ pc = "reports_check"
    /\ checks' = Append(checks, [type |-> "reports", total_reports |-> 0,
                                 matching_count |-> 0])
    /\ store' = store \cup {"reports"}
    /\ pc' = "checklist"
    /\ UNCHANGED <<stage, events, calls, fault, analyzed, inputVars, stageVars, claim,
                   uploads>>

\* 'sequential_results' in locals() holds: line_item_result is built from the
\* analysis; then tariffs_payload decides whether the tariff check runs
ChecklistResult ==
    /\ pc = "checklist"
    /\ checks' = Append(checks,
                        [type |-> "comprehensive_checklist",
                         case_specific_checklist |-> seq_result.case_specific_checklist,
                         payer_specific_checklist |-> <<>>])
    /\ store' = store \cup {"comprehensive_checklist"}
    /\ pc' = IF tariffs_data THEN "emit_tariff_check" ELSE "emit_calculating"
    /\ UNCHANGED <<stage, events, calls, fault, analyzed, inputVars, stageVars, claim,
                   uploads>>

\* tariff_result = checker.check_tariffs(line_items, tariffs_payload)
TariffCheck ==
    /\ pc = "tariffs"
    /\ \E matched \in {0, Len(line_items)} :
          checks' = Append(checks, [type |-> "tariffs", total_checked |-> Len(line_items),
                                    matched |-> matched])
    /\ store' = store \cup {"tariffs"}
    /\ pc' = "emit_calculating"
    /\ UNCHANGED <<stage, events, calls, fault, analyzed, inputVars, stageVars, claim,
                   uploads>>

\* final_report = build_final_report_from_sequential(...); final_score from the
\* issue counts of the analysis
Score ==
    /\ pc = "score"
    /\ pc' = "update_claim"
    /\ UNCHANGED <<stage, events, calls, checks, fault, analyzed, inputVars, stageVars,
                   storeVars>>

\* firestore_service.update_claim(claim_id, {accuracy_score, passed, status, ...})
UpdateClaim ==
    /\ pc = "update_claim"
    /\ claim' = [status |-> "completed", scored |-> TRUE] @@ SequentialScore(seq_result)
    /\ pc' = "save_final_score"
    /\ UNCHANGED <<stage, events, calls, checks, fault, analyzed, inputVars, stageVars,
                   store, uploads>>

SaveResult ==
    /\ pc \in DOMAIN FinalSaves
    /\ store' = store \cup {FinalSaves[pc].result_type}
    /\ pc' = FinalSaves[pc].next
    /\ UNCHANGED <<stage, events, calls, checks, fault, analyzed, inputVars, stageVars,
                   claim, uploads>>

\* for doc_info in documents_data.values(): os.remove(file_path)
DeleteFiles ==
    /\ pc = "delete_files"
    /\ uploads' = uploads \ SeqToSet(files)
    /\ pc' = "emit_completed"
    /\ UNCHANGED <<stage, events, calls, checks, fault, analyzed, inputVars, stageVars,
                   claim, store>>

EmitCompleted ==
    /\ pc = "emit_completed"
    /\ events' = Append(events, ProgressEvent("completed", 100, TRUE))
    /\ pc' = "emit_result"
    /\ UNCHANGED <<stage, calls, checks, fault, analyzed, inputVars, stageVars, storeVars>>

EmitResult ==
    /\ pc = "emit_result"
    /\ events' = Append(events, ResultEvent("completed"))
    /\ pc' = "done"
    /\ UNCHANGED <<stage, calls, checks, fault, analyzed, inputVars, stageVars, storeVars>>

\* ---- except Exception as e
\* A call to the store, the transport, the file system or a checker raises
Raise ==
    /\ pc \in RaisePoints
    /\ fault' = "io"
    /\ pc' = "except"
    /\ UNCHANGED <<stage, events, calls, checks, analyzed, inputVars, stageVars, storeVars>>

\* The except block is entered and error_result built. Of the locals of the try
\* body it reads analyzed_data only; the others are dropped here.
Except ==
    /\ pc = "except"
    /\ classified_docs' = EmptyClassified
    /\ line_items' = <<>>
    /\ seq_result' = EmptyResults
    /\ checks' = <<>>
    /\ pc' = "h_save"
    /\ UNCHANGED <<stage, events, calls, fault, analyzed, inputVars, oracle_failed, outcome,
                   storeVars>>

\* status of the claim after the inner try: 'failed' unless update_claim raised
StatusKeptBySave(saved, status) == status

StatusAfterSave(saved, status) == IF saved = "none" THEN status ELSE "failed"

\* try: update_claim(status 'failed'), add_claim_result of
\* final_report and analyzed_data; except: logged. The update of a document that
\* is not there raises.
HandlerSave ==
    /\ pc = "h_save"
    /\ \E saved \in {"all", "status", "none"} :
          /\ claim.status = "absent" => saved = "none"
          /\ claim' = [claim EXCEPT !.status = StatusAfterSave(saved, claim.status)]
          /\ store' = IF saved = "all"
                      THEN store \cup {"final_report"}
                                 \cup (IF analyzed THEN {"analyzed_data"} ELSE {})
                      ELSE store
    /\ pc' = "h_emit_progress"
    /\ UNCHANGED <<stage, events, calls, checks, fault, analyzed, inputVars, stageVars,
                   uploads>>

HandlerEmits ==
    [h_emit_progress |-> [event |-> ProgressEvent("error", 100, TRUE),
                          next |-> "h_emit_result"],
     h_emit_result |-> [event |-> ResultEvent("error"), next |-> "h_emit_error"],
     h_emit_error |-> [event |-> ErrorEvent, next |-> "h_cleanup"]]

HandlerEmit ==
    /\ pc \in DOMAIN HandlerEmits
    /\ events' = Append(events, HandlerEmits[pc].event)
    /\ pc' = HandlerEmits[pc].next
    /\ UNCHANGED <<stage, calls, checks, fault, analyzed, inputVars, stageVars, storeVars>>

\* socketio.emit raises inside the except block: nothing catches it
HandlerRaise ==
    /\ pc \in DOMAIN HandlerEmits
    /\ pc' = "crashed"
    /\ UNCHANGED <<stage, events, calls, checks, fault, analyzed, inputVars, stageVars,
                   storeVars>>

HandlerCleanup ==
    /\ pc = "h_cleanup"
    /\ uploads' = uploads \ SeqToSet(files)
    /\ pc' = "done"
    /\ UNCHANGED <<stage, events, calls, checks, fault, analyzed, inputVars, stageVars,
                   claim, store>>

Next ==
    \/ GetClaim
    \/ EmitProgress
    \/ CollectFiles
    \/ PrepareFileParts
    \/ StageCallback
    \/ StageInvoke
    \/ OracleClassify
    \/ OracleCaseContext
    \/ OracleInvoice
    \/ OracleReports
    \/ OracleApproval
    \/ OracleRequirements
    \/ OracleFinal
    \/ StageReturn
    \/ Organize
    \/ Cashless
    \/ PatientCheck
    \/ DateCheck
    \/ ReportCheck
    \/ ChecklistResult
    \/ TariffCheck
    \/ Score
    \/ UpdateClaim
    \/ SaveResult
    \/ DeleteFiles
    \/ EmitCompleted
    \/ EmitResult
    \/ Raise
    \/ Except
    \/ HandlerSave
    \/ HandlerEmit
    \/ HandlerRaise
    \/ HandlerCleanup

Spec == Init /\ [][Next]_vars

\* ---- what the run shows
IsTerminalEvent(e) ==
    e.name = "progress" /\ e.step \in {"completed", "error"} /\ e.result

ProgressEvents == SelectSeq(events, LAMBDA e : e.name = "progress")

\* C2: a task that has ended has emitted a terminal progress event ('completed' or
\* 'error') carrying 'result', whichever way it ended: normal completion, an
\* exception in any stage, or the early return.
C2_TerminalEventEmitted ==
    pc \in {"done", "crashed"} => \E i \in 1..Len(events) : IsTerminalEvent(events[i])

\* C3: the progress percentage of successive progress events of one run never
\* decreases.
C3_ProgressNeverDecreases ==
    \A i, j \in 1..Len(ProgressEvents) :
        i < j => ProgressEvents[i].progress <= ProgressEvents[j].progress

\* C4: when the oracle call of the case-context, invoice, report-assessment or
\* approval stage fails, the stage returns its default instead of raising and the
\* claim is not put into the failed state by it.
C4_OracleFailureYieldsDefault ==
    \A name \in {"clinical", "invoice", "reports", "approval"} :
        name \in oracle_failed =>
            /\ outcome[name] = "returned"
            /\ fault # "oracle"
            /\ claim.status # "failed"

\* C5: when the classifier's oracle call fails or its response cannot be parsed,
\* every file is in 'invoice', the other buckets are empty and the classifier
\* returns to the pipeline instead of raising.
C5_ClassifierFallsBackToInvoice ==
    (cl_done /\ (cl_resp.call = "raise" \/ cl_resp.parse = "error")) =>
        /\ ~cl_out.raised
        /\ cl_out.classified = ClassifyFallback(cl_files)

\* the weights the score is said to use, by category: patient details, dates,
\* reports, line items, tariffs
CategoryWeights == <<25, 20, 15, 30, 10>>

RECURSIVE WeightedSum(_, _)
WeightedSum(results, i) ==
    IF i > Len(results) THEN Frac(0, 1)
    ELSE LET score == ResultScore(results[i])
         IN  FracAdd(Frac(score.num * CategoryWeights[i], score.den),
                     WeightedSum(results, i + 1))

\* C6: the accuracy_score stored on a completed claim is the weighted sum of the
\* per-category scores (weights 0.25, 0.20, 0.15, 0.30, 0.10) rounded to two
\* decimals, and passed is true exactly when it is at least 80.
C6_StoredScoreIsWeightedSum ==
    (claim.status = "completed" /\ fault = "none") =>
        /\ claim.scored
        /\ claim.accuracy_score = RoundHalfEven(WeightedSum(checks, 1))
        /\ claim.passed = (claim.accuracy_score >= Threshold)

StageOrder ==
    <<"classify", "clinical", "invoice", "reports", "approval", "requirements", "final">>

Invocations == SelectSeq(calls, LAMBDA c : c.what = "invoke")

\* entries of calls before position p that are c
Before(p, what, name) ==
    \E q \in 1..(p - 1) : calls[q].what = what /\ calls[q].stage = name

ChunkedTasks ==
    {"classify", "case_summary", "line_items", "reports", "approval", "checklist",
     "case_requirements", "discrepancies"}

\* One step of a stage task: a read of fields of the shared results record, or an
\* oracle call. An optional call is one the stage may return without making.
ReadStep(fields) == [kind |-> "read", fields |-> fields, optional |-> FALSE]

OracleStep(optional) == [kind |-> "oracle", fields |-> {}, optional |-> optional]

\* {'case_summary': results['case_summary'], 'patient_information': ...}
CaseDataFieldsWithChecklist ==
    {"case_summary", "patient_information", "case_specific_checklist"}

CaseDataFields == {"case_summary", "patient_information"}

\* The stage functions and the closures run_...: what each does, in order
TaskSteps ==
    [classify |-> <<OracleStep(FALSE)>>,
     case_summary |-> <<OracleStep(FALSE)>>,
     line_items |-> <<OracleStep(FALSE)>>,
     reports |-> <<ReadStep({"line_items"}), OracleStep(TRUE)>>,
     approval |-> <<OracleStep(FALSE)>>,
     checklist |->
         <<ReadStep(CaseDataFields), OracleStep(FALSE),
           ReadStep({"case_summary", "line_items", "payer_information"})>>,
     case_requirements |-> <<ReadStep(CaseDataFields), OracleStep(FALSE)>>,
     discrepancies |-> <<OracleStep(FALSE)>>]

FirstPool == [tasks |-> {"case_summary", "line_items"}, max_workers |-> 2]

FinalPool ==
    [tasks |-> {"checklist", "case_requirements", "discrepancies"}, max_workers |-> 3]

Pools == {FirstPool, FinalPool}

PoolOf(t) == CHOOSE pool \in Pools : t \in pool.tasks

MainStep(kind, tasks, fields) == [kind |-> kind, tasks |-> tasks, fields |-> fields]

\* analyze_claim_chunked from line 1507 on, statement by statement
MainSteps ==
    <<MainStep("run", {"classify"}, {}),
      MainStep("write", {}, {"document_classification"}),
      MainStep("submit", FirstPool.tasks, {}),
      MainStep("wait", {"case_summary"}, {}),
      MainStep("wait", {"line_items"}, {}),
      MainStep("exit", FirstPool.tasks, {}),
      MainStep("write", {},
               {"case_summary", "patient_information", "line_items", "payer_information",
                "hospital_information"}),
      MainStep("run", {"reports"}, {}),
      MainStep("write", {}, {"line_items"}),
      MainStep("run", {"approval"}, {}),
      MainStep("write", {}, {"payer_information"}),
      MainStep("submit", FinalPool.tasks, {}),
      MainStep("wait", {"checklist"}, {}),
      MainStep("write", {}, {"case_specific_checklist"}),
      MainStep("wait", {"case_requirements"}, {}),
      MainStep("write", {}, {"case_requirements"}),
      MainStep("wait", {"discrepancies"}, {}),
      MainStep("write", {}, {"discrepancies", "possible_issues"}),
      MainStep("exit", FinalPool.tasks, {})>>

IdleTask == [state |-> "idle", at |-> 0, busy |-> FALSE]

\* future.result() and the exit of the with block return once the task has ended
FutureDoneOrStarted(t) == ch_task[t].state # "idle"

FutureDone(t) == ch_task[t].state \in {"finished", "raised"}

TaskStarted(t) == ch_task[t].state \in {"running", "finished", "raised"}

TaskFinished(t) == ch_task[t].state = "finished"

AtMainStep(kind) ==
    /\ ch_status = "running"
    /\ ch_pc \in 1..Len(MainSteps)
    /\ MainSteps[ch_pc].kind = kind

TheTask == CHOOSE t \in MainSteps[ch_pc].tasks : TRUE

InitChunked ==
    /\ ClassifyIdle /\ ScoreIdle /\ MainIdle /\ ServiceIdle /\ FnIdle /\ RetryIdle /\ RateIdle
    /\ ch_pc = 1 /\ ch_busy = FALSE /\ ch_status = "running"
    /\ ch_task = [t \in ChunkedTasks |-> IdleTask]

chunkedOthers == <<classifyVars, scoreVars, mainVars, serviceVars, fnVars, retryVars,
      rateVars>>

\* The calling thread enters a stage function itself
MainRun ==
    /\ AtMainStep("run") /\ ~ch_busy
    /\ ch_task' = [ch_task EXCEPT ![TheTask] = [state |-> "running", at |-> 1,
                                                 busy |-> FALSE]]
    /\ ch_busy' = TRUE
    /\ UNCHANGED <<ch_pc, ch_status, chunkedOthers>>

\* ... and the stage function returns or raises
MainRunDone ==
    /\ AtMainStep("run") /\ ch_busy
    /\ FutureDone(TheTask)
    /\ ch_busy' = FALSE
    /\ IF TaskFinished(TheTask)
       THEN ch_pc' = ch_pc + 1 /\ UNCHANGED ch_status
       ELSE ch_status' = "raised" /\ UNCHANGED ch_pc
    /\ UNCHANGED <<ch_task, chunkedOthers>>

\* executor.submit for every task of the pool
MainSubmit ==
    /\ AtMainStep("submit")
    /\ ch_task' = [t \in ChunkedTasks |->
                      IF t \in MainSteps[ch_pc].tasks
                      THEN [IdleTask EXCEPT !.state = "queued"]
                      ELSE ch_task[t]]
    /\ ch_pc' = ch_pc + 1
    /\ UNCHANGED <<ch_busy, ch_status, chunkedOthers>>

\* A worker thread of the pool takes a submitted task
WorkerStart(t) ==
    /\ ch_task[t].state = "queued"
    /\ Cardinality({u \in PoolOf(t).tasks : ch_task[u].state = "running"})
           < PoolOf(t).max_workers
    /\ ch_task' = [ch_task EXCEPT ![t] = [state |-> "running", at |-> 1, busy |-> FALSE]]
    /\ UNCHANGED <<ch_pc, ch_busy, ch_status, chunkedOthers>>

\* A task begins its next step, or returns without making an optional call
TaskStepBegin(t) ==
    /\ ch_task[t].state = "running" /\ ~ch_task[t].busy
    /\ \/ ch_task' = [ch_task EXCEPT ![t].busy = TRUE]
       \/ /\ TaskSteps[t][ch_task[t].at].optional
          /\ ch_task' = [ch_task EXCEPT ![t].state = "finished"]
    /\ UNCHANGED <<ch_pc, ch_busy, ch_status, chunkedOthers>>

\* The step ends; after the last one the task returns. An oracle step may also end
\* in an exception: the call raised, or its answer had the wrong shape.
TaskStepEnd(t) ==
    /\ ch_task[t].state = "running" /\ ch_task[t].busy
    /\ \/ ch_task' = [ch_task EXCEPT
                         ![t] = IF ch_task[t].at = Len(TaskSteps[t])
                                THEN [state |-> "finished", at |-> @.at, busy |-> FALSE]
                                ELSE [state |-> "running", at |-> @.at + 1,
                                      busy |-> FALSE]]
       \/ /\ TaskSteps[t][ch_task[t].at].kind = "oracle"
          /\ ch_task' = [ch_task EXCEPT ![t].state = "raised", ![t].busy = FALSE]
    /\ UNCHANGED <<ch_pc, ch_busy, ch_status, chunkedOthers>>

\* x = future.result(): blocks until the task has ended, re-raises its exception
MainWait ==
    /\ AtMainStep("wait")
    /\ FutureDone(TheTask)
    /\ IF ch_task[TheTask].state = "raised"
       THEN ch_status' = "unwinding" /\ UNCHANGED ch_pc
       ELSE ch_pc' = ch_pc + 1 /\ UNCHANGED ch_status
    /\ UNCHANGED <<ch_busy, ch_task, chunkedOthers>>

\* end of the with block: executor.shutdown(wait=True)
MainExit ==
    /\ AtMainStep("exit")
    /\ \A t \in MainSteps[ch_pc].tasks : FutureDone(t)
    /\ ch_pc' = ch_pc + 1
    /\ UNCHANGED <<ch_busy, ch_status, ch_task, chunkedOthers>>

\* the exception leaves the with block: shutdown(wait=True), then it propagates
MainUnwind ==
    /\ ch_status = "unwinding"
    /\ \A t \in PoolOf(TheTask).tasks : FutureDone(t)
    /\ ch_status' = "raised"
    /\ UNCHANGED <<ch_pc, ch_busy, ch_task, chunkedOthers>>

\* results[...] = ... by the calling thread
MainWriteBegin ==
    /\ AtMainStep("write") /\ ~ch_busy
    /\ ch_busy' = TRUE
    /\ UNCHANGED <<ch_pc, ch_status, ch_task, chunkedOthers>>

MainWriteEnd ==
    /\ AtMainStep("write") /\ ch_busy
    /\ ch_busy' = FALSE
    /\ ch_pc' = ch_pc + 1
    /\ UNCHANGED <<ch_status, ch_task, chunkedOthers>>

\* return results
MainReturn ==
    /\ ch_status = "running"
    /\ ch_pc = Len(MainSteps) + 1
    /\ ch_status' = "returned"
    /\ UNCHANGED <<ch_pc, ch_busy, ch_task, chunkedOthers>>

NextChunked ==
    \/ MainRun
    \/ MainRunDone
    \/ MainSubmit
    \/ \E t \in ChunkedTasks : WorkerStart(t)
    \/ \E t \in ChunkedTasks : TaskStepBegin(t)
    \/ \E t \in ChunkedTasks : TaskStepEnd(t)
    \/ MainWait
    \/ MainExit
    \/ MainUnwind
    \/ MainWriteBegin
    \/ MainWriteEnd
    \/ MainReturn

SpecChunked == InitChunked /\ [][NextChunked]_vars

MainWriting ==
    IF AtMainStep("write") /\ ch_busy THEN MainSteps[ch_pc].fields ELSE {}

TaskAccess(t, kind) ==
    IF ch_task[t].state = "running" /\ ch_task[t].busy
       /\ TaskSteps[t][ch_task[t].at].kind = kind
    THEN TaskSteps[t][ch_task[t].at].fields
    ELSE {}

TaskReading(t) == TaskAccess(t, "read")

TaskWriting(t) == TaskAccess(t, "write")

\* C13: in the concurrent final phase no two running tasks write the same field of
\* results, no task reads a field that another task or the calling thread is
\* writing, and the worker tasks write no field at all: the calling thread is the
\* only writer.
C13_NoRaceOnResults ==
    \A t \in FinalPool.tasks :
        /\ TaskWriting(t) = {}
        /\ \A k \in 1..Len(TaskSteps[t]) : TaskSteps[t][k].kind # "write"
        /\ MainWriting \cap (TaskReading(t) \cup TaskWriting(t)) = {}
        /\ \A u \in FinalPool.tasks \ {t} :
              TaskWriting(t) \cap (TaskReading(u) \cup TaskWriting(u)) = {}

\* the calling thread stores the checklist while the requirements task is reading
\* results and the discrepancies task is inside its oracle call
C13_Witness ==
    /\ MainWriting = {"case_specific_checklist"}
    /\ TaskReading("case_requirements") # {}
    /\ ch_task["discrepancies"].state = "running" /\ ch_task["discrepancies"].busy
\* ------------------------------------- the claims in progress (5, 6)
\* process_claim starts one daemon thread per accepted claim; the thread runs
\* analyze_claim_sequential, whose stages call the oracle one after the other.
Claims == 1..MaxClaims

NoThread == [state |-> "none", stage |-> 0]

InitService ==
    /\ ClassifyIdle /\ ScoreIdle /\ MainIdle /\ ChunkedIdle /\ FnIdle /\ RetryIdle /\ RateIdle
    /\ sv_thread = [c \in Claims |-> NoThread]

serviceOthers == <<classifyVars, scoreVars, mainVars, chunkedVars, fnVars, retryVars,
      rateVars>>

\* thread = threading.Thread(target=process_claim_async, ...); thread.start()
ProcessClaim(c) ==
    /\ sv_thread[c].state = "none"
    /\ sv_thread' = [sv_thread EXCEPT ![c] = [state |-> "running", stage |-> 1]]
    /\ UNCHANGED serviceOthers

\* the thread enters _generate_with_retry for its current stage
ThreadOracleCall(c) ==
    /\ sv_thread[c].state = "running"
    /\ sv_thread' = [sv_thread EXCEPT ![c].state = "oracle"]
    /\ UNCHANGED serviceOthers

\* the call returns and the next stage follows, or the call raises and the task
\* ends in its except block
ThreadOracleReturn(c) ==
    /\ sv_thread[c].state = "oracle"
    /\ \/ sv_thread' = [sv_thread EXCEPT
                           ![c] = IF @.stage = NumStages
                                  THEN [state |-> "done", stage |-> 0]
                                  ELSE [state |-> "running", stage |-> @.stage + 1]]
       \/ sv_thread' = [sv_thread EXCEPT ![c] = [state |-> "done", stage |-> 0]]
    /\ UNCHANGED serviceOthers

NextService ==
    \/ \E c \in Claims : ProcessClaim(c)
    \/ \E c \in Claims : ThreadOracleCall(c)
    \/ \E c \in Claims : ThreadOracleReturn(c)

SpecService == InitService /\ [][NextService]_vars

OracleCallsInFlight == Cardinality({c \in Claims : sv_thread[c].state = "oracle"})

\* C12: at every moment at most 3 oracle calls are in flight over the whole
\* service, also when several claims are processed at the same time.
C12_AtMostThreeCallsInFlight == OracleCallsInFlight <= 3

\* ---- claim retrieval (6)
\* results = firestore_service.get_claim_results(claim_id);
\* final_report = results.get('final_report')
GetClaimResults == store

RetrievedFinalReport == "final_report" \in GetClaimResults

MaxDisc == 2

Txt_a == <<"a">>

Txt_A_ == <<"A", " ">>

Txt_bars == <<"|", "|", "|">>

Txt_Reports == <<"R", "e", "p", "o", "r", "t", "s">>

Txt_Missing == <<"M", "i", "s", "s", "i", "n", "g">>

Txt_Document == <<" ", "D", "o", "c", "u", "m", "e", "n", "t">>

\* str.lower()
LowerChar(c) ==
    CASE c = "A" -> "a"
      [] c = "B" -> "b"
      [] c = "C" -> "c"
      [] c = "D" -> "d"
      [] c = "E" -> "e"
      [] c = "F" -> "f"
      [] c = "G" -> "g"
      [] c = "H" -> "h"
      [] c = "I" -> "i"
      [] c = "J" -> "j"
      [] c = "K" -> "k"
      [] c = "L" -> "l"
      [] c = "M" -> "m"
      [] c = "N" -> "n"
      [] c = "O" -> "o"
      [] c = "P" -> "p"
      [] c = "Q" -> "q"
      [] c = "R" -> "r"
      [] c = "S" -> "s"
      [] c = "T" -> "t"
      [] c = "U" -> "u"
      [] c = "V" -> "v"
      [] c = "W" -> "w"
      [] c = "X" -> "x"
      [] c = "Y" -> "y"
      [] c = "Z" -> "z"
      [] OTHER -> c

Lower(s) == [i \in 1..Len(s) |-> LowerChar(s[i])]

\* str.strip()
RECURSIVE LStrip(_)
LStrip(s) == IF s # <<>> /\ Head(s) = " " THEN LStrip(Tail(s)) ELSE s

RECURSIVE RStrip(_)
RStrip(s) == IF s # <<>> /\ s[Len(s)] = " " THEN RStrip(SubSeq(s, 1, Len(s) - 1)) ELSE s

Strip(s) == RStrip(LStrip(s))

\* (x or '').strip().lower()
NormText(s) == Lower(Strip(s))

\* (disc.get('severity') or 'low').capitalize()
Capitalize(sev) ==
    CASE sev = "high" -> "High"
      [] sev = "medium" -> "Medium"
      [] OTHER -> "Low"

\* the loops over report_result['missing_reports'] and
\* checklist_result['all_discrepancies']; the patient and date results of the
\* inputs drawn below hold no discrepancies, so their loops append nothing
FromMissingReport(m) ==
    [category |-> Txt_Reports, severity |-> "High", description |-> m.reason,
     expected |-> m.expected_report_type, actual |-> Txt_Missing, source |-> Txt_Reports]

FromChecklist(d) ==
    [category |-> d.category, severity |-> Capitalize(d.severity),
     description |-> d.description, expected |-> d.expected_value,
     actual |-> d.actual_value, source |-> d.location]

Collected(report_result, checklist_result) ==
    [i \in 1..Len(report_result) |-> FromMissingReport(report_result[i])]
    \o [i \in 1..Len(checklist_result) |-> FromChecklist(checklist_result[i])]

\* any(d.get(field) for field in ('description', 'expected', 'actual'))
HasContent(d) == d.description # <<>> \/ d.expected # <<>> \/ d.actual # <<>>

RECURSIVE KeepWithContent(_)
KeepWithContent(ds) ==
    IF ds = <<>> THEN <<>>
    ELSE (IF HasContent(Head(ds)) THEN <<Head(ds)>> ELSE <<>>) \o KeepWithContent(Tail(ds))

\* the triple the key is made from
Triple(d) == <<NormText(d.category), NormText(d.description), NormText(d.source)>>

\* key = f"{cat}|||{desc}|||{src}"
DedupKey(d) ==
    NormText(d.category) \o Txt_bars \o NormText(d.description) \o Txt_bars \o NormText(d.source)

UntouchedSources ==
    {<<"l", "i", "n", "e", " ", "i", "t", "e", "m">>, Lower(Txt_Reports),
     <<"d", "a", "t", "e", "s">>,
     <<"p", "a", "t", "i", "e", "n", "t", " ", "d", "e", "t", "a", "i", "l", "s">>}

\* disc['source'] = f"{src} Document"
WithDocumentSource(d) ==
    LET src == NormText(d.source)
    IN  IF src # <<>> /\ src \notin UntouchedSources
        THEN [d EXCEPT !.source = src \o Txt_Document]
        ELSE d

RECURSIVE Deduplicate(_, _)
Deduplicate(ds, seen) ==
    IF ds = <<>> THEN <<>>
    ELSE LET key == DedupKey(Head(ds))
         IN  IF key \notin seen
             THEN <<WithDocumentSource(Head(ds))>> \o Deduplicate(Tail(ds), seen \cup {key})
             ELSE Deduplicate(Tail(ds), seen)

\* _severity_rank
SeverityRank(sev) ==
    CASE sev = "High" -> 0
      [] sev = "Medium" -> 1
      [] sev = "Low" -> 2
      [] OTHER -> 3

\* code points of the characters that occur
CharCode(c) ==
    CASE c = " " -> 32
      [] c = "A" -> 65
      [] c = "D" -> 68
      [] c = "M" -> 77
      [] c = "R" -> 82
      [] c = "a" -> 97
      [] c = "c" -> 99
      [] c = "d" -> 100
      [] c = "e" -> 101
      [] c = "g" -> 103
      [] c = "i" -> 105
      [] c = "m" -> 109
      [] c = "n" -> 110
      [] c = "o" -> 111
      [] c = "p" -> 112
      [] c = "r" -> 114
      [] c = "s" -> 115
      [] c = "t" -> 116
      [] c = "u" -> 117
      [] OTHER -> 124

RECURSIVE TextLess(_, _)
TextLess(s, t) ==
    IF t = <<>> THEN FALSE
    ELSE IF s = <<>> THEN TRUE
    ELSE IF Head(s) # Head(t) THEN CharCode(Head(s)) < CharCode(Head(t))
    ELSE TextLess(Tail(s), Tail(t))

\* the sort key (rank, category or '', description or '') compared as a tuple
SortsBefore(d, e) ==
    \/ SeverityRank(d.severity) < SeverityRank(e.severity)
    \/ /\ SeverityRank(d.severity) = SeverityRank(e.severity)
       /\ \/ TextLess(d.category, e.category)
          \/ d.category = e.category /\ TextLess(d.description, e.description)

\* list.sort is stable: an entry goes behind every entry that does not sort after it
RECURSIVE InsertSorted(_, _)
InsertSorted(d, ds) ==
    IF ds = <<>> THEN <<d>>
    ELSE IF SortsBefore(d, Head(ds)) THEN <<d>> \o ds
    ELSE <<Head(ds)>> \o InsertSorted(d, Tail(ds))

RECURSIVE SortDiscrepancies(_)
SortDiscrepancies(ds) ==
    IF ds = <<>> THEN <<>>
    ELSE InsertSorted(ds[Len(ds)], SortDiscrepancies(SubSeq(ds, 1, Len(ds) - 1)))

Filtered(inp) == KeepWithContent(Collected(inp.report_result, inp.checklist_result))

Unique(inp) == Deduplicate(Filtered(inp), {})

CollectDiscrepancies(inp) == SortDiscrepancies(Unique(inp))

MissingReports == {[reason |-> r, expected_report_type |-> <<>>] : r \in {<<>>, Txt_a}}

ChecklistDiscrepancies ==
    [category : {<<>>, Txt_a, Txt_A_, Txt_bars},
     severity : {"high", "none"},
     description : {<<>>, Txt_a, Txt_A_, Txt_bars},
     expected_value : {<<>>, Txt_a},
     actual_value : {<<>>},
     location : {<<>>, Txt_a, Txt_Reports}]

InitCollect ==
    /\ fn_in \in [report_result : SeqsUpTo(MissingReports, 1),
                  checklist_result : SeqsUpTo(ChecklistDiscrepancies, MaxDisc)]
    /\ fn_out = <<>>
    /\ fn_done = FALSE
    /\ ClassifyIdle /\ ScoreIdle /\ MainIdle /\ ChunkedIdle /\ ServiceIdle /\ RetryIdle /\ RateIdle

fnOthers == <<classifyVars, scoreVars, mainVars, chunkedVars, serviceVars, retryVars,
      rateVars>>

Collect ==
    /\ ~fn_done
    /\ fn_out' = CollectDiscrepancies(fn_in)
    /\ fn_done' = TRUE
    /\ UNCHANGED <<fn_in, fnOthers>>

NextCollect == Collect

SpecCollect == InitCollect /\ [][NextCollect]_vars

\* the entries of ds whose triple is tr, in order
RECURSIVE WithTriple(_, _)
WithTriple(ds, tr) ==
    IF ds = <<>> THEN <<>>
    ELSE (IF Triple(Head(ds)) = tr THEN <<Head(ds)>> ELSE <<>>) \o WithTriple(Tail(ds), tr)

\* C15: the list _collect_discrepancies returns holds no two entries with the
\* same (category, description, source) after trimming and lower-casing, and for
\* each such triple among the collected entries exactly one entry, the first in
\* collection order, is kept.
C15_OnePerTriple ==
    fn_done =>
        /\ \A i, j \in 1..Len(fn_out) : Triple(fn_out[i]) = Triple(fn_out[j]) => i = j
        /\ \A k \in 1..Len(Filtered(fn_in)) :
              LET tr == Triple(Filtered(fn_in)[k])
                  first == WithDocumentSource(Head(WithTriple(Filtered(fn_in), tr)))
              IN  Len(SelectSeq(fn_out, LAMBDA d : d = first)) = 1

\* ---- _has_implants_in_procedures (quality_checks.py 337-380) and
\* _generate_default_checklist (1381-1486)
Txt_implant == <<"i", "m", "p", "l", "a", "n", "t">>

Txt_physiotherapy == <<"p", "h", "y", "s", "i", "o", "t", "h", "e", "r", "a", "p", "y">>

Txt_CoronaryStent == <<"C", "o", "r", "o", "n", "a", "r", "y", " ", "S", "t", "e", "n", "t">>

Txt_ImplantDevice == <<"I", "m", "p", "l", "a", "n", "t", " ", "D", "e", "v", "i", "c", "e">>

Txt_investigative == <<"i", "n", "v", "e", "s", "t", "i", "g", "a", "t", "i", "v", "e">>

Txt_implant_adjacent_care == <<"i", "m", "p", "l", "a", "n", "t", "-", "a", "d", "j", "a", "c", "e", "n", "t", "-", "c", "a", "r", "e">>

implant_keywords ==
    {<<"s", "t", "e", "n", "t">>,
     <<"r", "o", "d">>,
     <<"s", "c", "r", "e", "w">>,
     <<"p", "l", "a", "t", "e">>,
     <<"n", "a", "i", "l">>,
     <<"p", "i", "n">>,
     <<"w", "i", "r", "e">>,
     <<"c", "a", "g", "e">>,
     <<"d", "i", "s", "c">>,
     <<"p", "r", "o", "s", "t", "h", "e", "s", "i", "s">>,
     <<"p", "r", "o", "s", "t", "h", "e", "t", "i", "c">>,
     <<"i", "m", "p", "l", "a", "n", "t">>,
     <<"f", "i", "x", "a", "t", "i", "o", "n">>,
     <<"r", "e", "p", "l", "a", "c", "e", "m", "e", "n", "t">>,
     <<"g", "r", "a", "f", "t">>,
     <<"m", "e", "s", "h">>,
     <<"p", "a", "c", "e", "m", "a", "k", "e", "r">>,
     <<"i", "c", "d">>,
     <<"d", "e", "f", "i", "b", "r", "i", "l", "l", "a", "t", "o", "r">>,
     <<"c", "o", "i", "l">>,
     <<"c", "l", "i", "p">>,
     <<"v", "a", "l", "v", "e">>,
     <<"h", "i", "p", " ", "r", "e", "p", "l", "a", "c", "e", "m", "e", "n", "t">>,
     <<"k", "n", "e", "e", " ", "r", "e", "p", "l", "a", "c", "e", "m", "e", "n", "t">>,
     <<"s", "h", "o", "u", "l", "d", "e", "r", " ", "r", "e", "p", "l", "a", "c", "e", "m", "e", "n", "t">>,
     <<"e", "l", "b", "o", "w", " ", "r", "e", "p", "l", "a", "c", "e", "m", "e", "n", "t">>,
     <<"a", "n", "k", "l", "e", " ", "r", "e", "p", "l", "a", "c", "e", "m", "e", "n", "t">>,
     <<"j", "o", "i", "n", "t", " ", "r", "e", "p", "l", "a", "c", "e", "m", "e", "n", "t">>,
     <<"t", "o", "t", "a", "l", " ", "h", "i", "p">>,
     <<"t", "o", "t", "a", "l", " ", "k", "n", "e", "e">>,
     <<"d", "e", "n", "t", "a", "l", " ", "i", "m", "p", "l", "a", "n", "t">>,
     <<"d", "e", "n", "t", "a", "l", " ", "c", "r", "o", "w", "n">>,
     <<"d", "e", "n", "t", "a", "l", " ", "b", "r", "i", "d", "g", "e">>,
     <<"o", "r", "t", "h", "o", "p", "e", "d", "i", "c", " ", "i", "m", "p", "l", "a", "n", "t">>,
     <<"c", "a", "r", "d", "i", "a", "c", " ", "i", "m", "p", "l", "a", "n", "t">>,
     <<"v", "a", "s", "c", "u", "l", "a", "r", " ", "i", "m", "p", "l", "a", "n", "t">>,
     <<"n", "e", "u", "r", "o", "l", "o", "g", "i", "c", "a", "l", " ", "i", "m", "p", "l", "a", "n", "t">>}

\* the three category values of line 373
ImplantCategories == {Txt_implant, <<"m", "e", "d", "i", "c", "a", "l", " ", "i", "m", "p", "l", "a", "n", "t">>, <<"s", "u", "r", "g", "i", "c", "a", "l", " ", "i", "m", "p", "l", "a", "n", "t">>}

\* `sub in s` on str
RECURSIVE Contains(_, _)
Contains(s, sub) ==
    IF Len(sub) > Len(s) THEN FALSE
    ELSE IF SubSeq(s, 1, Len(sub)) = sub THEN TRUE
    ELSE Contains(Tail(s), sub)

\* any(keyword in name for keyword in implant_keywords)
HasKeyword(name) == \E keyword \in implant_keywords : Contains(Lower(name), keyword)

\* the loop over the procedures: the names are those of procedures_performed
ProcedureHasImplant(case_summary) ==
    \E i \in 1..Len(case_summary.procedures_performed) :
        HasKeyword(case_summary.procedures_performed[i].procedure_name)

\* the three tests made on one line item
ItemHasImplant(item) ==
    \/ HasKeyword(item.item_name)
    \/ /\ Contains(Lower(item.category), Txt_implant)
       /\ Lower(item.category) \in ImplantCategories
    \/ Lower(item.type) = Txt_implant
    \/ Contains(Lower(item.type), Txt_implant)

HasImplantsInProcedures(case_summary, items) ==
    \/ ProcedureHasImplant(case_summary)
    \/ \E i \in 1..Len(items) : ItemHasImplant(items[i])

\* a document name; the name of an investigation report carries the item's name
Doc(name) == <<name, <<>>>>

\* the six documents appended for every claim
DefaultDocs ==
    <<Doc("Cover Letter"), Doc("Final Bill"), Doc("Itemized Bill"), Doc("Discharge Summary"),
      Doc("Final Approval Letter"), Doc("Patient ID Proof")>>

ImplantDocs == <<Doc("Implant Vendor Invoice"), Doc("Implant Sticker"), Doc("Implant Certificate")>>

\* f'Investigation Report - {inv_name}'
RECURSIVE InvestigationReports(_)
InvestigationReports(items) ==
    IF items = <<>> THEN <<>>
    ELSE (IF Lower(Head(items).type) = Txt_investigative
          THEN <<<<"Investigation Report", Head(items).item_name>>>>
          ELSE <<>>) \o InvestigationReports(Tail(items))

\* the document names of the checklist, in the order they are appended
GenerateDefaultChecklist(case_summary, items, payer_info) ==
    LET payer_type == payer_info.payer_type
        is_govt_or_corporate == payer_type \in {"Govt Scheme", "Corporate"}
        is_tpa_or_insurer == payer_type \in {"TPA", "Insurer"}
        has_surgery == Len(case_summary.procedures_performed) > 0
        has_implants == HasImplantsInProcedures(case_summary, items)
    IN  DefaultDocs
        \o (IF has_surgery THEN <<Doc("OT Notes/Operation Report")>> ELSE <<>>)
        \o (IF has_implants
            THEN ImplantDocs \o (IF is_govt_or_corporate THEN <<Doc("Implant Pouch")>> ELSE <<>>)
            ELSE <<>>)
        \o (IF is_tpa_or_insurer THEN <<Doc("Preauth Form")>> ELSE <<>>)
        \o (IF is_govt_or_corporate THEN <<Doc("Referral Letter")>> ELSE <<>>)
        \o (IF payer_type = "Corporate" THEN <<Doc("Employee ID Card")>> ELSE <<>>)
        \o InvestigationReports(items)

\* build_final_report_from_sequential, 'case_specific_requirements'.'checklist':
\* case_checklist if case_checklist else self._generate_default_checklist(...)
ReportChecklist(inp) ==
    IF inp.case_checklist # <<>>
    THEN inp.case_checklist
    ELSE GenerateDefaultChecklist(inp.case_summary, inp.line_items, inp.payer_info)

ProcedureNames == {Txt_physiotherapy, Txt_CoronaryStent}

ChecklistLineItems ==
    [item_name : {Txt_physiotherapy, Txt_CoronaryStent},
     category : {<<>>, Txt_implant, Txt_implant_adjacent_care},
     type : {<<>>, Txt_investigative, Txt_ImplantDevice}]

PayerTypes == {"TPA", "Insurer", "Govt Scheme", "Corporate", "Unknown"}

\* the checklists the oracle is taken to return: none, one that names a
\* document of its own, one that names one of the six
OracleChecklists == SeqsUpTo({Doc("Death Certificate"), Doc("Cover Letter")}, 1)

ChecklistInputs ==
    [case_summary : [procedures_performed : SeqsUpTo([procedure_name : ProcedureNames], 1)],
     line_items : SeqsUpTo(ChecklistLineItems, MaxItems),
     payer_info : [payer_type : PayerTypes],
     case_checklist : OracleChecklists]

InitChecklist ==
    /\ fn_in \in ChecklistInputs
    /\ fn_out = <<>>
    /\ fn_done = FALSE
    /\ ClassifyIdle /\ ScoreIdle /\ MainIdle /\ ChunkedIdle /\ ServiceIdle /\ RetryIdle /\ RateIdle

DefaultChecklist ==
    /\ ~fn_done
    /\ fn_out' = GenerateDefaultChecklist(fn_in.case_summary, fn_in.line_items, fn_in.payer_info)
    /\ fn_done' = TRUE
    /\ UNCHANGED <<fn_in, fnOthers>>

NextChecklist == DefaultChecklist

SpecChecklist == InitChecklist /\ [][NextChecklist]_vars

BuildFinalReport ==
    /\ ~fn_done
    /\ fn_out' = ReportChecklist(fn_in)
    /\ fn_done' = TRUE
    /\ UNCHANGED <<fn_in, fnOthers>>

NextReport == BuildFinalReport

SpecReport == InitChecklist /\ [][NextReport]_vars

SeqToSetOfDocs(s) == {s[i] : i \in 1..Len(s)}

\* C16: the case-specific checklist placed in the final report holds the six
\* always-required documents, whatever checklist the oracle returned.
C16_ReportHasRequiredDocs ==
    fn_done => SeqToSetOfDocs(DefaultDocs) \subseteq SeqToSetOfDocs(fn_out)

\* some procedure name or line-item name holds a keyword of the lexicon
KeywordInSomeName(inp) ==
    \/ ProcedureHasImplant(inp.case_summary)
    \/ \E i \in 1..Len(inp.line_items) : HasKeyword(inp.line_items[i].item_name)

\* C17: the rule checklist includes the implant documents exactly when some
\* procedure name or line-item name contains a keyword of the implant lexicon; a
\* category or type field that contains "implant" does not cause them to be
\* included when no name holds a keyword.
C17_ImplantDocsIffKeywordInName ==
    fn_done =>
        (SeqToSetOfDocs(ImplantDocs) \subseteq SeqToSetOfDocs(fn_out) <=> KeywordInSomeName(fn_in))

\* ---- the approval result (gemini_service.py 1178-1206, 1389-1402, 1605-1610)
\* JSON values the oracle's text can decode to
ApprovalObjects ==
    [kind : {"object"}, approval_found : BOOLEAN,
     payer_info : [payer_type : {"TPA", "Unknown"}]]

JsonScalars == {[kind |-> "string"], [kind |-> "number"], [kind |-> "null"]}

JsonLists == [kind : {"list"}, items : SeqsUpTo(ApprovalObjects \cup {[kind |-> "number"]}, 2)]

\* what the stage's text holds: a JSON value, or text json.loads rejects
ApprovalResponses == ApprovalObjects \cup JsonScalars \cup JsonLists \cup {[kind |-> "unparseable"]}

IsDict(v) == v.kind = "object"

NotFound == [kind |-> "object", approval_found |-> FALSE, payer_info |-> [payer_type |-> "none"]]

\* _verify_approval_sequential after the oracle call: json.loads, a list gives
\* its first element when that is a dict, else the not-found record; any other
\* value is returned as decoded; an exception gives the not-found record
VerifyApprovalSequential(response) ==
    CASE response.kind = "unparseable" -> NotFound
      [] response.kind = "list" ->
            IF response.items # <<>> /\ IsDict(response.items[1])
            THEN response.items[1]
            ELSE NotFound
      [] OTHER -> response

\* payer_info.update(approval_verification.get('payer_info', {})): keys of the
\* update replace the keys held; the not-found record's payer_info is empty
UpdatePayerInfo(payer_info, approval) ==
    IF approval.payer_info.payer_type = "none" THEN payer_info ELSE approval.payer_info

ApprovalStart ==
    [stage |-> "verify", approval |-> [kind |-> "null"],
     payer_information |-> [payer_type |-> "Unknown"], raised |-> FALSE]

InitApproval ==
    /\ fn_in \in [response : ApprovalResponses, path : {"sequential", "chunked"}]
    /\ fn_out = ApprovalStart
    /\ fn_done = FALSE
    /\ ClassifyIdle /\ ScoreIdle /\ MainIdle /\ ChunkedIdle /\ ServiceIdle /\ RetryIdle /\ RateIdle

\* approval_verification = self._verify_approval_sequential(...)
VerifyApproval ==
    /\ fn_out.stage = "verify"
    /\ fn_out' = [fn_out EXCEPT !.stage = "use",
                                !.approval = VerifyApprovalSequential(fn_in.response)]
    /\ UNCHANGED <<fn_in, fn_done, fnOthers>>

\* analyze_claim_sequential 1397-1402 and 1424-1426: a value that is no dict is
\* replaced by the not-found record before the first .get
SequentialUse ==
    /\ fn_out.stage = "use"
    /\ fn_in.path = "sequential"
    /\ LET approval == IF IsDict(fn_out.approval) THEN fn_out.approval ELSE NotFound
       IN  fn_out' = [fn_out EXCEPT !.stage = "done",
                                    !.approval = approval,
                                    !.payer_information = UpdatePayerInfo(@, approval)]
    /\ fn_done' = TRUE
    /\ UNCHANGED <<fn_in, fnOthers>>

\* analyze_claim_chunked 1610: .get on the value as returned; on a value that is
\* no dict the attribute lookup raises AttributeError
ChunkedUse ==
    /\ fn_out.stage = "use"
    /\ fn_in.path = "chunked"
    /\ IF IsDict(fn_out.approval)
       THEN fn_out' = [fn_out EXCEPT !.stage = "done",
                                     !.payer_information = UpdatePayerInfo(@, fn_out.approval)]
       ELSE fn_out' = [fn_out EXCEPT !.stage = "done", !.raised = TRUE]
    /\ fn_done' = TRUE
    /\ UNCHANGED <<fn_in, fnOthers>>

NextApproval == VerifyApproval \/ SequentialUse \/ ChunkedUse

SpecApproval == InitApproval /\ [][NextApproval]_vars

\* C18: whatever JSON shape the oracle returns for approval verification, the
\* value the analysis goes on with is a record: a list gives its first element
\* when that is an object and the not-found record when it holds no object, any
\* other non-object gives the not-found record, and no later step of
\* analyze_claim_sequential or analyze_claim_chunked fails on its type.
C18_ApprovalIsAlwaysRecord ==
    fn_done =>
        /\ ~fn_out.raised
        /\ IsDict(fn_out.approval)
        /\ (fn_in.response.kind = "list" /\ fn_in.response.items # <<>>
              /\ IsDict(fn_in.response.items[1]))
              => fn_out.approval = fn_in.response.items[1]
        /\ (fn_in.response.kind = "list"
              /\ \A i \in 1..Len(fn_in.response.items) : ~IsDict(fn_in.response.items[i]))
              => fn_out.approval = NotFound
        /\ fn_in.response.kind \in {"string", "number", "null"} => fn_out.approval = NotFound

\* ---- the approved amount (gemini_service.py 1428-1437, quality_checks.py 1203-1218)
MaxAmount == 2

\* a field the oracle left out or set to null
NoAmount == -1

AmountValues == {NoAmount} \cup (0..MaxAmount)

AmountFields == {"approved_amount", "authorized_amount", "sanctioned_amount", "admissible_amount"}

\* truthiness of a field value: None and 0 are falsy
Truthy(v) == v # NoAmount /\ v # 0

\* a or b
Or(a, b) == IF Truthy(a) THEN a ELSE b

\* float(approved_amount) if approved_amount else 0.0
ToAmount(v) == IF Truthy(v) THEN v ELSE 0

\* analyze_claim_sequential: the `or` chain over the four fields
ExtractApprovedAmount(approval) ==
    ToAmount(Or(approval.approved_amount,
                Or(approval.authorized_amount,
                   Or(approval.sanctioned_amount,
                      Or(approval.admissible_amount, 0)))))

\* build_final_report_from_sequential: approval_verification's approved_amount,
\* else payer_info's, else total_approved_amount (a field the stage's JSON does
\* not have), else 0.0
ReportApprovedTotal(approval, payer_info) ==
    ToAmount(Or(approval.approved_amount, Or(payer_info.approved_amount, Or(NoAmount, 0))))

InitAmount ==
    /\ fn_in \in [AmountFields -> AmountValues]
    /\ fn_out = <<>>
    /\ fn_done = FALSE
    /\ ClassifyIdle /\ ScoreIdle /\ MainIdle /\ ChunkedIdle /\ ServiceIdle /\ RetryIdle /\ RateIdle

RecordApprovedAmount ==
    /\ ~fn_done
    /\ LET payer_info == [approved_amount |-> ExtractApprovedAmount(fn_in)]
       IN  fn_out' = [payer_information |-> payer_info,
                      approved_total |-> ReportApprovedTotal(fn_in, payer_info)]
    /\ fn_done' = TRUE
    /\ UNCHANGED <<fn_in, fnOthers>>

NextAmount == RecordApprovedAmount

SpecAmount == InitAmount /\ [][NextAmount]_vars

\* the largest of the populated fields, 0 when none is populated
MaxOfFields(approval) ==
    LET populated == {approval[f] : f \in AmountFields} \ {NoAmount}
    IN  IF populated = {} THEN 0 ELSE CHOOSE m \in populated : \A v \in populated : v <= m

\* C19: the approved amount recorded for a claim is the maximum of the oracle's
\* approved_amount, authorized_amount, sanctioned_amount and admissible_amount
\* (0 when none is populated), for every combination of their values.
C19_ApprovedAmountIsMax ==
    fn_done =>
        /\ fn_out.payer_information.approved_amount = MaxOfFields(fn_in)
        /\ fn_out.approved_total = MaxOfFields(fn_in)

\* ---- _generate_with_retry (gemini_service.py 29-51)
max_retries == 3

initial_delay == 2

Txt_429 == <<"4", "2", "9">>

Txt_ResourceExhausted == <<"R", "e", "s", "o", "u", "r", "c", "e", " ", "e", "x", "h", "a", "u", "s", "t", "e", "d">>

Txt_quota == <<"q", "u", "o", "t", "a">>

\* messages of the exceptions generate_content is taken to raise
Err_429 == <<"4", "2", "9", " ", "T", "o", "o", " ", "M", "a", "n", "y", " ", "R", "e", "q", "u", "e", "s", "t", "s">>

Err_ResourceExhausted == <<"R", "e", "s", "o", "u", "r", "c", "e", " ", "e", "x", "h", "a", "u", "s", "t", "e", "d">>

Err_quota == <<"q", "u", "o", "t", "a", " ", "e", "x", "c", "e", "e", "d", "e", "d">>

Err_Quota == <<"Q", "u", "o", "t", "a", " ", "e", "x", "c", "e", "e", "d", "e", "d">>

Err_timeout == <<"t", "i", "m", "e", "o", "u", "t">>

Err_invalid == <<"i", "n", "v", "a", "l", "i", "d", " ", "a", "r", "g", "u", "m", "e", "n", "t">>

ErrorMessages == {Err_429, Err_ResourceExhausted, Err_quota, Err_Quota, Err_timeout, Err_invalid}

\* "429" in error_str or "Resource exhausted" in error_str or "quota" in error_str.lower()
IsRateLimit(error_str) ==
    \/ Contains(error_str, Txt_429)
    \/ Contains(error_str, Txt_ResourceExhausted)
    \/ Contains(Lower(error_str), Txt_quota)

RECURSIVE Pow2(_)
Pow2(n) == IF n = 0 THEN 1 ELSE 2 * Pow2(n - 1)

\* the same wait before every retry
DelayFixed(attempt) == initial_delay

\* delay = initial_delay * (2 ** attempt)
Delay(attempt) == initial_delay * Pow2(attempt)

InitRetry ==
    /\ rt_attempt = 0
    /\ rt_log = <<>>
    /\ rt_state = "calling"
    /\ ClassifyIdle /\ ScoreIdle /\ MainIdle /\ ChunkedIdle /\ ServiceIdle /\ FnIdle /\ RateIdle

retryOthers == <<classifyVars, scoreVars, mainVars, chunkedVars, serviceVars, fnVars,
      rateVars>>

\* one pass of the try: generate_content returns, or raises and the except
\* clause returns to the loop through the sleep, or raises
Attempt ==
    /\ rt_state = "calling"
    /\ rt_attempt < max_retries
    /\ \E raised_error \in {<<>>} \cup ErrorMessages :
          /\ rt_log' = Append(rt_log, [kind |-> "attempt", error |-> raised_error, delay |-> 0])
          /\ rt_state' =
                IF raised_error = <<>> THEN "returned"
                ELSE IF IsRateLimit(raised_error)
                     THEN (IF rt_attempt < max_retries - 1 THEN "sleeping" ELSE "raised")
                     ELSE "raised"
    /\ UNCHANGED <<rt_attempt, retryOthers>>

\* time.sleep(delay); continue
Sleep ==
    /\ rt_state = "sleeping"
    /\ rt_log' = Append(rt_log, [kind |-> "sleep", error |-> <<>>, delay |-> Delay(rt_attempt)])
    /\ rt_attempt' = rt_attempt + 1
    /\ rt_state' = "calling"
    /\ UNCHANGED retryOthers

NextRetry == Attempt \/ Sleep

SpecRetry == InitRetry /\ [][NextRetry]_vars

\* the attempts of the log, in order
Attempts == SelectSeq(rt_log, LAMBDA e : e.kind = "attempt")

\* the number of attempts among the first i entries of the log
AttemptsUpTo(i) == Len(SelectSeq(SubSeq(rt_log, 1, i), LAMBDA e : e.kind = "attempt"))

TariffKey(text) == NormText(text)

\* normalized_by_code[code] = entry: the last entry with the code is kept
RECURSIVE NormalizedByCode(_, _)
NormalizedByCode(entries, code_key) ==
    IF entries = <<>> THEN <<>>
    ELSE LET entry == entries[Len(entries)]
         IN  IF TariffKey(entry.item_code) = code_key
             THEN <<entry>>
             ELSE NormalizedByCode(SubSeq(entries, 1, Len(entries) - 1), code_key)

\* normalized_by_name.setdefault(name, entry): the first entry with the name is kept
RECURSIVE NormalizedByName(_, _)
NormalizedByName(entries, name_key) ==
    IF entries = <<>> THEN <<>>
    ELSE IF TariffKey(Head(entries).item_name) = name_key
         THEN <<Head(entries)>>
         ELSE NormalizedByName(Tail(entries), name_key)

\* the entry found for the item, as a list of none or one
TariffEntry(item, entries) ==
    LET code_key == TariffKey(item.item_code)
        name_key == TariffKey(item.item_name)
    IN  IF code_key # <<>> /\ NormalizedByCode(entries, code_key) # <<>>
        THEN NormalizedByCode(entries, code_key)
        ELSE IF name_key # <<>> THEN NormalizedByName(entries, name_key)
        ELSE <<>>

\* _safe_float(item.get('price') or item.get('total_price')): a price of 0 or
\* None with no total_price is None
SafePrice(v) == IF Truthy(v) THEN v ELSE NoAmount

\* one entry of tariff_checks
TariffResult(item, entries) ==
    LET found == TariffEntry(item, entries)
        billed_price == SafePrice(item.price)
    IN  IF found # <<>>
        THEN LET tariff_price == SafePrice(found[1].tariff_price)
             IN  [match |-> (tariff_price = NoAmount \/ billed_price = NoAmount
                               \/ billed_price = tariff_price),
                  note |-> "",
                  referenced |-> TRUE]
        ELSE [match |-> FALSE, note |-> "No tariff reference provided", referenced |-> FALSE]

CheckTariffs(items, entries) ==
    LET tariff_results == [i \in 1..Len(items) |-> TariffResult(items[i], entries)]
    IN  [type |-> "tariffs",
         tariff_checks |-> tariff_results,
         total_checked |-> Len(tariff_results),
         matched |-> Len(SelectSeq(tariff_results, LAMBDA r : r.match))]

TariffItems ==
    [item_code : {<<>>, Txt_a, Txt_A_}, item_name : {<<>>, Txt_a, Txt_bars},
     price : {NoAmount, 1, 2}]

TariffEntries == [item_code : {<<>>, Txt_a}, item_name : {<<>>, Txt_a}, tariff_price : {NoAmount, 1, 2}]

InitTariffs ==
    /\ fn_in \in [line_items : SeqsUpTo(TariffItems, MaxItems),
                  tariffs_data : SeqsUpTo(TariffEntries, 1)]
    /\ fn_out = <<>>
    /\ fn_done = FALSE
    /\ ClassifyIdle /\ ScoreIdle /\ MainIdle /\ ChunkedIdle /\ ServiceIdle /\ RetryIdle /\ RateIdle

\* check_tariffs, and the tariff category score calculate_accuracy_score
\* computes from its result
CheckTariffsAndScore ==
    /\ ~fn_done
    /\ LET result == CheckTariffs(fn_in.line_items, fn_in.tariffs_data)
       IN  fn_out' = [result |-> result, score |-> ResultScore(result)]
    /\ fn_done' = TRUE
    /\ UNCHANGED <<fn_in, fnOthers>>

NextTariffs == CheckTariffsAndScore

SpecTariffs == InitTariffs /\ [][NextTariffs]_vars

\* the entries of tariff_checks for which a reference was found
ReferencedChecks == SelectSeq(fn_out.result.tariff_checks, LAMBDA r : r.referenced)

\* C21: a line item for which the tariff dataset has no entry by code or by name
\* is reported as having no reference and is not treated as a mismatch: the
\* tariff category score is the one the items with a reference give.
C21_NoReferenceIsNotMismatch ==
    fn_done =>
        /\ \A i \in 1..Len(fn_in.line_items) :
              TariffEntry(fn_in.line_items[i], fn_in.tariffs_data) = <<>>
                  => fn_out.result.tariff_checks[i].note = "No tariff reference provided"
        /\ FracEq(fn_out.score,
                  CategoryScore(Len(SelectSeq(ReferencedChecks, LAMBDA r : r.match)),
                                Len(ReferencedChecks)))

\* the task has returned, or an exception has left it
Terminated == pc \in {"done", "crashed"}

\* C22: when process_claim_async has terminated for a claim, on any path, none of
\* the files uploaded for the claim remains in the upload folder.
C22_NoUploadsAfterTermination == Terminated => uploads \cap SeqToSet(files) = {}

\* C23: at most one terminal progress event is emitted and it is the last
\* progress event: after a progress event with step 'completed' no progress event
\* with step 'error', and no other progress event, is emitted.
C23_TerminalEventIsLast ==
    \A i \in 1..Len(ProgressEvents) :
        ProgressEvents[i].step \in {"completed", "error"} => i = Len(ProgressEvents)

\* C29: the stored status of a claim is stable once terminal: after status
\* 'completed' has been written, no later step of the run changes it to 'failed'.
C29_CompletedStaysCompleted ==
    [][claim.status = "completed" => claim'.status = "completed"]_vars

\* ---- the files handed to case-context extraction
\* (gemini_service.py 1319-1342 and 1529-1545)
\* classified_docs.get(category, []): the files of one category, in upload order
FilesOf(inp, category) == SelectSeq(inp.file_paths, LAMBDA f : inp.category[f] = category)

\* _prepare_file_parts(file_paths): one part per path; a part is named by its path
PrepareParts(file_paths) == file_paths

\* discharge_parts = parts of the discharge files if there are any, else file_parts;
\* the call passes discharge_parts if discharge_summary_files or clinical_files
\* else file_parts, and the stage sends [prompt] + that list
CaseContextParts(inp) ==
    LET file_parts == PrepareParts(inp.file_paths)
        discharge_summary_files == FilesOf(inp, "discharge_summary")
        clinical_files == FilesOf(inp, "clinical")
        discharge_parts == IF discharge_summary_files # <<>>
                           THEN PrepareParts(discharge_summary_files)
                           ELSE file_parts
    IN  IF discharge_summary_files # <<>> \/ clinical_files # <<>>
        THEN discharge_parts
        ELSE file_parts

InitCaseContext ==
    /\ \E n \in 0..MaxFiles :
          fn_in \in [file_paths : {FilePaths(n)}, category : [1..n -> Categories],
                     path : {"sequential", "chunked"}]
    /\ fn_out = <<>>
    /\ fn_done = FALSE
    /\ ClassifyIdle /\ ScoreIdle /\ MainIdle /\ ChunkedIdle /\ ServiceIdle /\ RetryIdle /\ RateIdle

\* analyze_claim_sequential, step 2
SequentialCaseContext ==
    /\ ~fn_done
    /\ fn_in.path = "sequential"
    /\ fn_out' = CaseContextParts(fn_in)
    /\ fn_done' = TRUE
    /\ UNCHANGED <<fn_in, fnOthers>>

\* analyze_claim_chunked, run_case_summary: the same two expressions
ChunkedCaseContext ==
    /\ ~fn_done
    /\ fn_in.path = "chunked"
    /\ fn_out' = CaseContextParts(fn_in)
    /\ fn_done' = TRUE
    /\ UNCHANGED <<fn_in, fnOthers>>

NextCaseContext == SequentialCaseContext \/ ChunkedCaseContext

SpecCaseContext == InitCaseContext /\ [][NextCaseContext]_vars

\* the files classified discharge_summary or clinical
DischargeAndClinical ==
    {f \in SeqToSet(fn_in.file_paths) : fn_in.category[f] \in {"discharge_summary", "clinical"}}

\* C24: the file set passed to case-context extraction is never empty when the
\* claim has a file; it is the union of the discharge_summary and clinical files
\* when that union is non-empty and the full file set otherwise.
C24_CaseContextFiles ==
    fn_done =>
        /\ fn_in.file_paths # <<>> => fn_out # <<>>
        /\ SeqToSet(fn_out) = IF DischargeAndClinical # {}
                              THEN DischargeAndClinical
                              ELSE SeqToSet(fn_in.file_paths)

\* the report stage is about to return to analyze_claim_sequential
ReportsStageReturning == pc = "seq_return" /\ stage > 0 /\ StageNames[stage] = "reports"

ReportsOracleCalled == \E p \in 1..Len(calls) : calls[p] = [what |-> "oracle", stage |-> "reports"]

\* C25: report assessment issues an oracle call exactly when the line items hold
\* at least one item of type 'investigative'; so every line item the next step
\* marks as investigative was named in a report-assessment oracle call.
C25_ReportsOracleIffInvestigative ==
    ReportsStageReturning =>
        (ReportsOracleCalled <=> \E i \in 1..Len(line_items) : line_items[i].type = "investigative")

\* ---- _assess_reports_sequential after the oracle call (gemini_service.py 1071-1119)
\* What a response text comes to under the code's steps. `decoded` is the value
\* json.loads gives after the fences are cut, trailing commas removed and the span
\* from the first "{" to the last "}" taken: an object with its reports_by_item
\* (e.g. {"reports_by_item": null}; the one object of a list is taken out of the
\* list by the brace search), a value with no brace in its text ([1], "none", 7,
\* null), or "undecodable". `partial` is what the second attempt recovers from an
\* undecodable text: "none" when the key is not there or the rebuilt text does
\* not decode, else the value of reports_by_item in the rebuilt object, a map for
\* {"reports_by_item": {"cbc": {"found": true}, "reports_found": [ and a number
\* for {"reports_by_item": 1, "x": {"y": {"z": 1}
ByItemValues == {"map", "null", "list", "number"}

ReportResponses ==
    [decoded : {"object"}, reports_by_item : ByItemValues \cup {"absent"}, partial : {"none"}]
    \cup [decoded : {"list", "string", "number", "null"}, reports_by_item : {"absent"},
          partial : {"none"}]
    \cup [decoded : {"undecodable"}, reports_by_item : {"absent"},
          partial : {"none", "map", "number"}]

EmptyAssessment == [kind |-> "object", reports_by_item |-> "map"]

\* the value the function returns: the decoded value whatever its type, or on
\* JSONDecodeError the recovered section, or the empty record
AssessReports(items, response) ==
    IF InvestigativeItems(items) = <<>> THEN EmptyAssessment
    ELSE IF response.decoded = "undecodable"
         THEN (IF response.partial = "none"
               THEN EmptyAssessment
               ELSE [kind |-> "object", reports_by_item |-> response.partial])
         ELSE [kind |-> response.decoded, reports_by_item |-> response.reports_by_item]

\* reports_assessment.get('reports_by_item', {}).get(item.get('item_name'), False)
\* raises AttributeError when either receiver is no dict
LookupRaises(assessment) ==
    \/ assessment.kind # "object"
    \/ assessment.reports_by_item \notin {"map", "absent"}

InitAssess ==
    /\ fn_in \in [line_items : LineItemLists, response : ReportResponses]
    /\ fn_out = [stage |-> "assess", assessment |-> EmptyAssessment, raised |-> FALSE]
    /\ fn_done = FALSE
    /\ ClassifyIdle /\ ScoreIdle /\ MainIdle /\ ChunkedIdle /\ ServiceIdle /\ RetryIdle /\ RateIdle

\* reports_assessment = self._assess_reports_sequential(...)
AssessReportsCall ==
    /\ fn_out.stage = "assess"
    /\ fn_out' = [fn_out EXCEPT !.stage = "update",
                                !.assessment = AssessReports(fn_in.line_items, fn_in.response)]
    /\ UNCHANGED <<fn_in, fn_done, fnOthers>>

\* for item in results['line_items']: the lookup is made for each item whose
\* lower-cased type is 'investigative'
UpdateLineItems ==
    /\ fn_out.stage = "update"
    /\ fn_out' = [fn_out EXCEPT
                     !.stage = "done",
                     !.raised = /\ \E i \in 1..Len(fn_in.line_items) :
                                      fn_in.line_items[i].type = "investigative"
                                /\ LookupRaises(fn_out.assessment)]
    /\ fn_done' = TRUE
    /\ UNCHANGED <<fn_in, fnOthers>>

NextAssess == AssessReportsCall \/ UpdateLineItems

SpecAssess == InitAssess /\ [][NextAssess]_vars

\* C26: for every oracle response text, of any JSON shape, the function returns
\* a record whose reports_by_item is a map, so the step reading reports_by_item
\* for each line item never fails.
C26_ReportsByItemIsMap ==
    fn_out.stage \in {"update", "done"} =>
        /\ fn_out.assessment.kind = "object"
        /\ fn_out.assessment.reports_by_item \in {"map", "absent"}
        /\ ~fn_out.raised

\* ---- the checklist delivered (quality_checks.py 1352, 1474-1486;
\* gemini_service.py 1618-1640)
MaxChecklistItems == 2

\* for item in all_checklist: if doc_name and doc_name not in seen
RECURSIVE UniqueByName(_, _)
UniqueByName(items, seen) ==
    IF items = <<>> THEN <<>>
    ELSE IF Head(items) # Doc("") /\ Head(items) \notin seen
         THEN <<Head(items)>> \o UniqueByName(Tail(items), seen \cup {Head(items)})
         ELSE UniqueByName(Tail(items), seen)

\* run_checklist_with_data: default_checklist + checklist, de-duplicated
ChunkedChecklist(inp) ==
    UniqueByName(GenerateDefaultChecklist(inp.case_summary, inp.line_items, inp.payer_info)
                 \o inp.case_checklist, {})

InitDelivered ==
    /\ fn_in \in [case_summary : [procedures_performed : {<<>>}],
                  line_items : SeqsUpTo(ChecklistLineItems, MaxChecklistItems),
                  payer_info : [payer_type : {"TPA", "Corporate"}],
                  case_checklist : SeqsUpTo({Doc("Death Certificate"), Doc("Cover Letter")},
                                            MaxChecklistItems),
                  path : {"default", "report", "chunked"}]
    /\ fn_out = <<>>
    /\ fn_done = FALSE
    /\ ClassifyIdle /\ ScoreIdle /\ MainIdle /\ ChunkedIdle /\ ServiceIdle /\ RetryIdle /\ RateIdle

DeliverDefault ==
    /\ ~fn_done /\ fn_in.path = "default"
    /\ fn_out' = GenerateDefaultChecklist(fn_in.case_summary, fn_in.line_items, fn_in.payer_info)
    /\ fn_done' = TRUE
    /\ UNCHANGED <<fn_in, fnOthers>>

DeliverReport ==
    /\ ~fn_done /\ fn_in.path = "report"
    /\ fn_out' = ReportChecklist(fn_in)
    /\ fn_done' = TRUE
    /\ UNCHANGED <<fn_in, fnOthers>>

DeliverChunked ==
    /\ ~fn_done /\ fn_in.path = "chunked"
    /\ fn_out' = ChunkedChecklist(fn_in)
    /\ fn_done' = TRUE
    /\ UNCHANGED <<fn_in, fnOthers>>

NextDelivered == DeliverDefault \/ DeliverReport \/ DeliverChunked

SpecDelivered == InitDelivered /\ [][NextDelivered]_vars

\* C27: the case-specific checklist delivered never holds two items with the
\* same document name: the output of _generate_default_checklist, the checklist
\* chosen in build_final_report_from_sequential, and the merged checklist of
\* analyze_claim_chunked.
C27_NoDuplicateDocumentNames ==
    fn_done => \A i, j \in 1..Len(fn_out) : fn_out[i] = fn_out[j] => i = j

\* ---- calculate_accuracy_score on counts the oracle supplies
\* check_dates sets total_items to len(line_items) and valid_count to the length
\* of the oracle's valid_items (quality_checks.py 55-63); check_reports takes both
\* counts from its oracle. Neither count bounds the other.
MaxValid == 2

CountedResults ==
    [type : {"dates"}, total_items : 0..MaxValid, valid_count : 0..MaxValid]
    \cup [type : {"reports"}, total_reports : 0..MaxValid, matching_count : 0..MaxValid]

InitRange ==
    /\ fn_in \in SeqsUpTo(CountedResults, 2)
    /\ fn_out = <<>>
    /\ fn_done = FALSE
    /\ ClassifyIdle /\ ScoreIdle /\ MainIdle /\ ChunkedIdle /\ ServiceIdle /\ RetryIdle /\ RateIdle

CalculateRange ==
    /\ ~fn_done
    /\ fn_out' = CalculateAccuracyScore(fn_in)
    /\ fn_done' = TRUE
    /\ UNCHANGED <<fn_in, fnOthers>>

NextRange == CalculateRange

SpecRange == InitRange /\ [][NextRange]_vars

\* C28: for every list of check results, whatever counts they hold, the returned
\* accuracy_score and every score of the breakdown lie between 0 and 100.
C28_ScoresWithinRange ==
    fn_done =>
        /\ fn_out.accuracy_score >= 0 /\ fn_out.accuracy_score <= 100 * 100
        /\ \A t \in DOMAIN fn_out.breakdown :
              /\ FracLeq(Frac(0, 1), fn_out.breakdown[t])
              /\ FracLeq(fn_out.breakdown[t], Frac(100, 1))

\* ---------------------------------------------------------------------------
\* SpecRateLimit: FirestoreService.record_request called by concurrent
\* unauthenticated process_claim requests (the server runs its handlers on
\* threads).  Each call reads the request_logs document of its address and
\* day, and, when the read found none, writes it and allows the request.
\* ---------------------------------------------------------------------------

MaxRequests == 3

IpAddresses == {"10.0.0.1", "10.0.0.2"}

RequestDates == {1, 2}

Requests == 1..MaxRequests

\* doc_id: the address and the ISO date of the day
RequestDocId(req) == <<req.ip_address, req.request_date>>

NotStarted(ip, day) ==
    [ip_address |-> ip, request_date |-> day, at |-> "start",
     exists |-> FALSE, returned |-> "none"]

InitRateLimit ==
    /\ ClassifyIdle /\ ScoreIdle /\ MainIdle /\ ChunkedIdle /\ ServiceIdle /\ FnIdle /\ RetryIdle
    /\ rl_logs = {}
    /\ \E ips \in [Requests -> IpAddresses], days \in [Requests -> RequestDates] :
          rl_req = [r \in Requests |-> NotStarted(ips[r], days[r])]

rateOthers == <<classifyVars, scoreVars, mainVars, chunkedVars, serviceVars, fnVars,
      retryVars>>

\* doc = doc_ref.get()
GetRequestLog(r) ==
    /\ rl_req[r].at = "start"
    /\ rl_req' = [rl_req EXCEPT ![r].at = "read",
                                ![r].exists = RequestDocId(rl_req[r]) \in rl_logs]
    /\ UNCHANGED <<rl_logs, rateOthers>>

\* if doc.exists: return False
RejectRequest(r) ==
    /\ rl_req[r].at = "read"
    /\ rl_req[r].exists
    /\ rl_req' = [rl_req EXCEPT ![r].at = "done", ![r].returned = "False"]
    /\ UNCHANGED <<rl_logs, rateOthers>>

\* doc_ref.set({...}); return True
RecordRequest(r) ==
    /\ rl_req[r].at = "read"
    /\ ~rl_req[r].exists
    /\ rl_logs' = rl_logs \cup {RequestDocId(rl_req[r])}
    /\ rl_req' = [rl_req EXCEPT ![r].at = "done", ![r].returned = "True"]
    /\ UNCHANGED rateOthers

NextRateLimit ==
    \E r \in Requests :
        \/ GetRequestLog(r)
        \/ RejectRequest(r)
        \/ RecordRequest(r)

SpecRateLimit == InitRateLimit /\ [][NextRateLimit]_vars

AllowedFor(ip, day) ==
    {r \in DOMAIN rl_req : /\ rl_req[r].ip_address = ip
                           /\ rl_req[r].request_date = day
                           /\ rl_req[r].returned = "True"}

\* C30: for one address and one calendar day record_request returns True for
\* at most one request, however the concurrent requests interleave.
C30_AtMostOneAllowedPerIpDay ==
    \A ip \in IpAddresses, day \in RequestDates :
        Cardinality(AllowedFor(ip, day)) <= 1

====
